---- MODULE Spec2Model ----
(***************************************************************************)
(* A model of the resilient extraction pipeline of                         *)
(* src/robust_senate_extractor.py (class EnhancedSenateExtractor):         *)
(*   - the text helpers the parsers rest on (Python str and re semantics), *)
(*   - the field extractors extract_ticker / identify_transaction_owner,   *)
(*   - the three parsing strategies and the chain that orders them,        *)
(*   - download_report_with_enhanced_retry and process_report as a state   *)
(*     machine whose steps are the points where the code talks to the      *)
(*     render backend, the HTTP session or the clock.                      *)
(*                                                                         *)
(* Python values: None is the empty tuple <<>> and a present optional      *)
(* value x is <<x>>; a dict is a function whose DOMAIN is its key set.     *)
(***************************************************************************)
EXTENDS Integers, Sequences, FiniteSets, TLC

VARIABLES
    pc,            \* position of the pipeline's single thread of control
    caller,        \* who called download: "process_report" or "download"
    maxRetries,    \* the max_retries argument of the running download
    url,           \* report_data['link']
    attempt,       \* the loop variable of `for attempt in range(max_retries)`
    page,          \* what the render backend currently shows: <<>> or <<[title, source]>>
    result,        \* what download returned: None (<<>>) or <<document>>
    log,           \* history: one record per attempt started
    report,        \* what process_report returned: None (<<>>) or <<record>>
    doc,           \* the document handed to the parser chain: <<>> or <<document>>
    parsed,        \* history of the last parser-chain call: <<>> or <<[calls, raised, transactions]>>
    report_data,   \* the report_data argument of the running process_report / download
    failure,       \* what process_report logged when it gave up: <<>> or <<[reference]>>
    saved,         \* history: the file process_report wrote: <<>> or <<[path, content]>>
    cookies,       \* self.session.cookies
    session_established,  \* the scraper's flag
    acq,           \* history of the last acquisition call: <<>> or <<Acquisition>>
    run,           \* the entry point main is in: "none", "direct", "daily", "search", "batch"
    stage,         \* where run_daily_scrape is: "none", "today", "yesterday", "known"
    outer,         \* who called process_report: "none", "process_reports", "process_direct_url"
    queue,         \* process_reports: the reports not yet taken from the list
    processed,     \* process_reports: processed_reports
    handled,       \* history: the references process_reports has dealt with, in order
    knownQueue,    \* run_daily_scrape: the known URLs not yet taken
    searches,      \* history: what the searches of the run returned, in order
    outcome,       \* what the entry point returned to main: <<>> or <<[op, value]>>
    fetchers,      \* two downloads on one extractor: where each is, and the cookies it holds
    driverCookies, \* the cookies of self.driver, which the downloads share
    input,         \* the argument of extract_ticker and identify_transaction_owner
    tickerOut,     \* what extract_ticker returned: None (<<>>) or <<ticker>>
    ownerOut,      \* what identify_transaction_owner returned
    parses,        \* history: the calls of the parser chain so far, [doc, out] each
    headerCells,   \* the texts of the header cells parse_tables read from a table
    headerMapOut   \* what create_header_map returned for them: <<>> or <<header_map>>

vars == <<pc, caller, maxRetries, url, attempt, page, result, log, report, doc, parsed,
          report_data, failure, saved, cookies, session_established, acq, run, stage,
          outer,
          queue, processed, handled, knownQueue, searches, outcome,
          fetchers, driverCookies, input, tickerOut, ownerOut, parses,
          headerCells, headerMapOut>>

None == <<>>
Some(x) == <<x>>

(***************************************************************************)
(* Text.  Python strings are TLA+ strings; a character is a string of      *)
(* length 1.                                                               *)
(***************************************************************************)
UpperChars == "ABCDEFGHIJKLMNOPQRSTUVWXYZ"
LowerChars == "abcdefghijklmnopqrstuvwxyz"
DigitChars == "0123456789"

CharAt(s, i) == SubSeq(s, i, i)

CharIn(c, alphabet) == \E k \in 1..Len(alphabet) : CharAt(alphabet, k) = c

IsUpper(c) == CharIn(c, UpperChars)
IsLower(c) == CharIn(c, LowerChars)
IsLetter(c) == IsUpper(c) \/ IsLower(c)
IsDigit(c) == CharIn(c, DigitChars)
\* the regex class \s and the characters str.strip() removes
IsSpace(c) == c \in {" ", "\t", "\n"}

\* str.lower() of one character
LowerChar(c) ==
    IF IsUpper(c)
    THEN CharAt(LowerChars, CHOOSE k \in 1..26 : CharAt(UpperChars, k) = c)
    ELSE c

RECURSIVE LowerFrom(_, _)
LowerFrom(s, i) ==
    IF i > Len(s) THEN "" ELSE LowerChar(CharAt(s, i)) \o LowerFrom(s, i + 1)

\* str.lower()
Lower(s) == LowerFrom(s, 1)

\* Python's `t in s` for strings
Contains(s, t) ==
    \E i \in 1..(Len(s) - Len(t) + 1) : SubSeq(s, i, i + Len(t) - 1) = t

\* s[i..] starts with t, compared case-insensitively (re.IGNORECASE on a literal)
StartsWithAtI(s, i, t) ==
    /\ i + Len(t) - 1 <= Len(s)
    /\ \A k \in 1..Len(t) : LowerChar(CharAt(s, i + k - 1)) = LowerChar(CharAt(t, k))

\* str.strip()
Strip(s) ==
    LET keep == {i \in 1..Len(s) : ~IsSpace(CharAt(s, i))}
    IN  IF keep = {} THEN ""
        ELSE SubSeq(s, CHOOSE i \in keep : \A j \in keep : i <= j,
                       CHOOSE i \in keep : \A j \in keep : j <= i)

RECURSIVE JoinFrom(_, _, _)
JoinFrom(sep, texts, i) ==
    IF i > Len(texts) THEN ""
    ELSE IF i = Len(texts) THEN texts[i]
    ELSE texts[i] \o sep \o JoinFrom(sep, texts, i + 1)

\* sep.join(texts)
Join(sep, texts) == JoinFrom(sep, texts, 1)

Min(S) == CHOOSE x \in S : \A y \in S : x <= y
Max(S) == CHOOSE x \in S : \A y \in S : y <= x

\* the first index >= i of s whose character is not in the class, Len(s)+1 if none:
\* where a greedy run [class]* that starts at i ends
RunEnd(s, i, InClass(_)) ==
    LET stop == {j \in i..Len(s) : ~InClass(CharAt(s, j))}
    IN  IF stop = {} THEN Len(s) + 1 ELSE Min(stop)

(***************************************************************************)
(* Field extractors.                                                       *)
(***************************************************************************)

\* re.search(r'[(\[]([A-Z]{1,5})[)\]]', text): the positions of the opening bracket
\* at which the pattern matches
TickerBracketStarts(text) ==
    {p \in 1..Len(text) :
        /\ CharAt(text, p) \in {"(", "["}
        /\ LET e == RunEnd(text, p + 1, IsUpper)
           IN  /\ e - (p + 1) \in 1..5
               /\ e <= Len(text)
               /\ CharAt(text, e) \in {")", "]"}}

\* re.search(r'([A-Z]{1,5})\s*-', text): a start p matches when the uppercase run
\* from p is at most 5 long and is followed by optional whitespace and a hyphen
TickerSuffixStarts(text) ==
    {p \in 1..Len(text) :
        /\ IsUpper(CharAt(text, p))
        /\ LET e == RunEnd(text, p, IsUpper)
               w == RunEnd(text, e, IsSpace)
           IN  /\ e - p <= 5
               /\ w <= Len(text)
               /\ CharAt(text, w) = "-"}

\* re.search(r'-\s*([A-Z]{1,5})', text): a hyphen, optional whitespace, an uppercase letter
TickerPrefixStarts(text) ==
    {p \in 1..Len(text) :
        /\ CharAt(text, p) = "-"
        /\ LET w == RunEnd(text, p + 1, IsSpace)
           IN  w <= Len(text) /\ IsUpper(CharAt(text, w))}

\* faulty variant: the pattern `AAPL -` is tried before the bracketed one
extract_ticker_suffix_first(asset_text) ==
    IF TickerSuffixStarts(asset_text) # {}
    THEN LET p == Min(TickerSuffixStarts(asset_text))
         IN  Some(SubSeq(asset_text, p, RunEnd(asset_text, p, IsUpper) - 1))
    ELSE IF TickerBracketStarts(asset_text) # {}
    THEN LET p == Min(TickerBracketStarts(asset_text))
         IN  Some(SubSeq(asset_text, p + 1, RunEnd(asset_text, p + 1, IsUpper) - 1))
    ELSE IF TickerPrefixStarts(asset_text) # {}
    THEN LET p == Min(TickerPrefixStarts(asset_text))
             w == RunEnd(asset_text, p + 1, IsSpace)
             e == RunEnd(asset_text, w, IsUpper)
         IN  Some(SubSeq(asset_text, w, Min({e, w + 5}) - 1))
    ELSE None

extract_ticker(asset_text) ==
    IF TickerBracketStarts(asset_text) # {}
    THEN LET p == Min(TickerBracketStarts(asset_text))
         IN  Some(SubSeq(asset_text, p + 1, RunEnd(asset_text, p + 1, IsUpper) - 1))
    ELSE IF TickerSuffixStarts(asset_text) # {}
    THEN LET p == Min(TickerSuffixStarts(asset_text))
         IN  Some(SubSeq(asset_text, p, RunEnd(asset_text, p, IsUpper) - 1))
    ELSE IF TickerPrefixStarts(asset_text) # {}
    THEN LET p == Min(TickerPrefixStarts(asset_text))
             w == RunEnd(asset_text, p + 1, IsSpace)
             e == RunEnd(asset_text, w, IsUpper)
         IN  Some(SubSeq(asset_text, w, Min({e, w + 5}) - 1))
    ELSE None

SpouseIndicators == {"spouse", "husband", "wife", "joint", "spousal"}
ChildIndicators == {"child", "son", "daughter", "dependent", "minor"}
FamilyIndicators == {"family", "trust", "estate"}

\* faulty variant: the family indicators are tested before the child indicators
identify_transaction_owner_family_first(asset_text) ==
    LET text == Lower(asset_text)
    IN  IF \E indicator \in SpouseIndicators : Contains(text, indicator) THEN "spouse"
        ELSE IF \E indicator \in FamilyIndicators : Contains(text, indicator) THEN "family"
        ELSE IF \E indicator \in ChildIndicators : Contains(text, indicator) THEN "child"
        ELSE "self"

identify_transaction_owner(asset_text) ==
    LET text == Lower(asset_text)
    IN  IF \E indicator \in SpouseIndicators : Contains(text, indicator) THEN "spouse"
        ELSE IF \E indicator \in ChildIndicators : Contains(text, indicator) THEN "child"
        ELSE IF \E indicator \in FamilyIndicators : Contains(text, indicator) THEN "family"
        ELSE "self"

(***************************************************************************)
(* The pieces of the transaction patterns.  Each XEndAt(s, i) is the index *)
(* just after the match of X that starts at i, or 0 when X does not match  *)
(* at i.                                                                   *)
(***************************************************************************)
TypeKeywords == {"Purchase", "Sale", "Exchange"}

\* (Purchase|Sale|Exchange) with re.IGNORECASE
TypeEndAt(s, i) ==
    IF \E k \in TypeKeywords : StartsWithAtI(s, i, k)
    THEN i + Len(CHOOSE k \in TypeKeywords : StartsWithAtI(s, i, k))
    ELSE 0

\* \d{1,2}/\d{1,2}/\d{4}
DateEndAt(s, i) ==
    LET Digits(from, n) ==
            /\ from + n - 1 <= Len(s)
            /\ \A k \in from..(from + n - 1) : IsDigit(CharAt(s, k))
        Slash(at) == at <= Len(s) /\ CharAt(s, at) = "/"
        ends == {i + k1 + 1 + k2 + 1 + 4 : k1 \in 1..2, k2 \in 1..2}
        ok == {e \in ends : \E k1 \in 1..2, k2 \in 1..2 :
                  /\ e = i + k1 + 1 + k2 + 1 + 4
                  /\ Digits(i, k1) /\ Slash(i + k1)
                  /\ Digits(i + k1 + 1, k2) /\ Slash(i + k1 + 1 + k2)
                  /\ Digits(i + k1 + k2 + 2, 4)}
    IN  IF ok = {} THEN 0 ELSE Max(ok)

IsAmountChar(c) == IsDigit(c) \/ c = ","

\* \$[\d,]+-\$[\d,]+|\$[\d,]+ : the range alternative is tried first
AmountEndAt(s, i) ==
    IF ~(i <= Len(s) /\ CharAt(s, i) = "$") THEN 0
    ELSE LET e1 == RunEnd(s, i + 1, IsAmountChar)
             e2 == RunEnd(s, e1 + 2, IsAmountChar)
         IN  IF e1 = i + 1 THEN 0
             ELSE IF /\ e1 + 1 <= Len(s)
                     /\ CharAt(s, e1) = "-"
                     /\ CharAt(s, e1 + 1) = "$"
                     /\ e2 > e1 + 2
                  THEN e2
                  ELSE e1

\* re.search: the leftmost start at which a piece matches, 0 if it matches nowhere
FirstMatch(s, EndAt(_, _)) ==
    LET starts == {i \in 1..Len(s) : EndAt(s, i) # 0}
    IN  IF starts = {} THEN 0 ELSE Min(starts)


(***************************************************************************)
(* Documents.  A document is what the server sent, in the structure        *)
(* BeautifulSoup recovers from it:                                         *)
(*   tables : the <table> elements in document order, each a sequence of   *)
(*            rows (<tr>), each row a sequence of cell texts (<th>/<td>);  *)
(*   divs   : the <div> elements, each with its class attribute and text;  *)
(*   text   : the text outside tables and divs.                            *)
(* Html(d) is the markup string (html_content); the parse                  *)
(* BeautifulSoup(html_content) of that string is d itself.                 *)
(***************************************************************************)
RECURSIVE ConcatFrom(_, _)
ConcatFrom(texts, i) ==
    IF i > Len(texts) THEN "" ELSE texts[i] \o ConcatFrom(texts, i + 1)

Concat(texts) == ConcatFrom(texts, 1)

HtmlRow(row) ==
    "<tr>" \o Concat([k \in 1..Len(row) |-> "<td>" \o row[k] \o "</td>"]) \o "</tr>"

HtmlTable(table) ==
    "<table>" \o Concat([k \in 1..Len(table) |-> HtmlRow(table[k])]) \o "</table>"

HtmlDiv(div) == "<div class=\"" \o div.class \o "\">" \o div.text \o "</div>"

Html(d) ==
    Concat([k \in 1..Len(d.tables) |-> HtmlTable(d.tables[k])])
        \o Concat([k \in 1..Len(d.divs) |-> HtmlDiv(d.divs[k])])
        \o d.text

(***************************************************************************)
(* Strategy 1: standard table parsing.                                     *)
(***************************************************************************)
Fields == {"asset", "transaction_type", "date", "amount", "owner", "ticker"}

field_mappings ==
    [field \in Fields |->
        CASE field = "asset" -> {"asset", "security", "name", "description"}
          [] field = "transaction_type" -> {"transaction", "type", "action"}
          [] field = "date" -> {"date", "transaction date"}
          [] field = "amount" -> {"amount", "value"}
          [] field = "owner" -> {"owner"}
          [] field = "ticker" -> {"ticker", "symbol"}]

\* the header indexes (0-based, as in the code) whose text contains a name of the field
HeaderMatches(headers, field) ==
    {idx \in 0..(Len(headers) - 1) :
        \E name \in field_mappings[field] : Contains(headers[idx + 1], name)}

\* faulty variant: a field is mapped to the last header that matches
create_header_map_last_match(headers) ==
    [field \in {f \in Fields : HeaderMatches(headers, f) # {}} |->
        Max(HeaderMatches(headers, field))]

\* the dict header_map: its keys are the fields some header matches
create_header_map(headers) ==
    [field \in {f \in Fields : HeaderMatches(headers, f) # {}} |->
        Min(HeaderMatches(headers, field))]

\* the fields extract_transaction_from_cells reads a cell for
CellFields == {"asset", "transaction_type", "date", "amount", "owner"}

\* cell_texts[header_map[field]] raises IndexError when the index is out of range
CellIndexError(cells, header_map) ==
    \E field \in CellFields \cap DOMAIN header_map : header_map[field] >= Len(cells)

\* the keys of the transaction dict built from a row
TransactionKeys(header_map) ==
    {"raw_text", "cell_count"}
        \cup (IF "asset" \in DOMAIN header_map THEN {"asset", "ticker"} ELSE {})
        \cup ({"transaction_type", "date", "amount"} \cap DOMAIN header_map)
        \cup (IF "owner" \in DOMAIN header_map THEN {"owner", "relationship"} ELSE {})

\* [raised |-> TRUE] when the code raises, else the dict it returns
extract_transaction_from_cells(cells, header_map) ==
    LET cell_texts == [k \in 1..Len(cells) |-> Strip(cells[k])]
        Cell(field) == cell_texts[header_map[field] + 1]
    IN  IF CellIndexError(cells, header_map)
        THEN [raised |-> TRUE, value |-> None]
        ELSE [raised |-> FALSE,
              value |-> Some([key \in TransactionKeys(header_map) |->
                  CASE key = "raw_text" -> Join(" | ", cell_texts)
                    [] key = "cell_count" -> Len(cells)
                    [] key = "asset" -> Cell("asset")
                    [] key = "ticker" -> extract_ticker(Cell("asset"))
                    [] key = "transaction_type" -> Cell("transaction_type")
                    [] key = "date" -> Cell("date")
                    [] key = "amount" -> Cell("amount")
                    [] key = "owner" -> Cell("owner")
                    [] key = "relationship" -> identify_transaction_owner(Cell("owner"))])]

\* headers of a table: the stripped, lower-cased texts of the cells of its first row
TableHeaders(table) == [k \in 1..Len(table[1]) |-> Lower(Strip(table[1][k]))]

\* the data rows of a table with header map header_map that parse_tables hands to
\* extract_transaction_from_cells: none when the map is empty, else the rows with at
\* least 3 cells
RowJobs(table, header_map) ==
    IF DOMAIN header_map = {} THEN <<>>
    ELSE [k \in 1..(Len(table) - 1) |-> [cells |-> table[k + 1], header_map |-> header_map]]

HasThreeCells(job) == Len(job.cells) >= 3

\* faulty variant: a table of one row is not skipped, and its header row is read as data
TableJobsWithoutRowCount(table) ==
    IF DOMAIN create_header_map(TableHeaders(table)) = {} THEN <<>>
    ELSE SelectSeq([k \in 1..Len(table) |->
                       [cells |-> table[k],
                        header_map |-> create_header_map(TableHeaders(table))]],
                   HasThreeCells)

TableJobs(table) ==
    IF Len(table) < 2 THEN <<>>
    ELSE SelectSeq(RowJobs(table, create_header_map(TableHeaders(table))), HasThreeCells)

RECURSIVE DocJobsFrom(_, _)
DocJobsFrom(tables, i) ==
    IF i > Len(tables) THEN <<>> ELSE TableJobs(tables[i]) \o DocJobsFrom(tables, i + 1)

RowOutcomes(jobs) ==
    [k \in 1..Len(jobs) |->
        extract_transaction_from_cells(jobs[k].cells, jobs[k].header_map)]

\* an exception in any row leaves parse_tables without a result
CollectRows(outs) ==
    IF \E k \in 1..Len(outs) : outs[k].raised
    THEN [raised |-> TRUE, transactions |-> <<>>]
    ELSE [raised |-> FALSE, transactions |-> [k \in 1..Len(outs) |-> outs[k].value[1]]]

\* [raised, transactions]
parse_tables(soup) == CollectRows(RowOutcomes(DocJobsFrom(soup.tables, 1)))

(***************************************************************************)
(* Strategy 2: div-based layouts.                                          *)
(***************************************************************************)
LikelyKeywords == {"purchase", "sale", "exchange", "asset", "security", "$", "ticker"}

is_likely_transaction(text) ==
    \E keyword \in LikelyKeywords : Contains(Lower(text), Lower(keyword))

\* [A-Za-z\s]
IsAssetChar(c) == IsLetter(c) \/ IsSpace(c)

\* re.search(r'([A-Za-z\s]+(?:Inc|Corp|LLC|Ltd|ETF)?)', text).group(1), None without a
\* match: the first maximal run of letters and whitespace (the optional suffix can
\* only follow the greedy run, where no letter is left for it)
AssetRun(text) ==
    LET starts == {i \in 1..Len(text) : IsAssetChar(CharAt(text, i))}
    IN  IF starts = {} THEN None
        ELSE Some(SubSeq(text, Min(starts), RunEnd(text, Min(starts), IsAssetChar) - 1))

\* None, or the dict of the four components found anywhere in the text
parse_transaction_text(text) ==
    LET asset_match == AssetRun(text)
        type_at == FirstMatch(text, TypeEndAt)
        date_at == FirstMatch(text, DateEndAt)
        amount_at == FirstMatch(text, AmountEndAt)
    IN  IF asset_match # None /\ type_at # 0 /\ date_at # 0 /\ amount_at # 0
        THEN Some([asset |-> Strip(asset_match[1]),
                   transaction_type |-> SubSeq(text, type_at, TypeEndAt(text, type_at) - 1),
                   date |-> SubSeq(text, date_at, DateEndAt(text, date_at) - 1),
                   amount |-> SubSeq(text, amount_at, AmountEndAt(text, amount_at) - 1),
                   ticker |-> extract_ticker(asset_match[1]),
                   owner |-> "self",
                   relationship |-> "self"])
        ELSE None

\* soup.find_all('div', class_=re.compile(r'transaction|asset', re.I))
IsTransactionDiv(div) ==
    Contains(Lower(div.class), "transaction") \/ Contains(Lower(div.class), "asset")

RECURSIVE DivTransactionsFrom(_, _)
DivTransactionsFrom(divs, i) ==
    IF i > Len(divs) THEN <<>>
    ELSE LET text == Strip(divs[i].text)
             found == IF IsTransactionDiv(divs[i]) /\ is_likely_transaction(text)
                      THEN parse_transaction_text(text)
                      ELSE None
         IN  found \o DivTransactionsFrom(divs, i + 1)

parse_alternative(soup) == DivTransactionsFrom(soup.divs, 1)

(***************************************************************************)
(* Strategy 3: the pattern                                                 *)
(*   ([A-Za-z\s]+)\s*(Purchase|Sale|Exchange)\s*(date)\s*(amount)          *)
(* over the whole markup, re.findall with re.IGNORECASE.                   *)
(***************************************************************************)

\* The pattern after group 1, from the index w where the type keyword starts: None, or
\* groups 2..4 and the index just after the match.
TailEnd(s, w, type_end, date_at, date_end, amount_at, amount_end) ==
    IF amount_end = 0 THEN None
    ELSE Some([transaction_type |-> SubSeq(s, w, type_end - 1),
               date |-> SubSeq(s, date_at, date_end - 1),
               amount |-> SubSeq(s, amount_at, amount_end - 1),
               end |-> amount_end])

TailAmount(s, w, type_end, date_at, date_end) ==
    IF date_end = 0 THEN None
    ELSE TailEnd(s, w, type_end, date_at, date_end,
                 RunEnd(s, date_end, IsSpace), AmountEndAt(s, RunEnd(s, date_end, IsSpace)))

TailDate(s, w, type_end) ==
    IF type_end = 0 THEN None
    ELSE TailAmount(s, w, type_end,
                    RunEnd(s, type_end, IsSpace), DateEndAt(s, RunEnd(s, type_end, IsSpace)))

PatternTail(s, w) == TailDate(s, w, TypeEndAt(s, w))

\* the least i >= pos with s[i..w-1] all letters and whitespace: where a group 1 that
\* ends just before w can start
GroupStart(s, pos, w) ==
    LET stop == {j \in pos..(w - 1) : ~IsAssetChar(CharAt(s, j))}
    IN  IF stop = {} THEN pos ELSE Max(stop) + 1

MatchGroups(s, i, w, tail) ==
    Some([asset |-> SubSeq(s, i, w - 1),
          transaction_type |-> tail.transaction_type,
          date |-> tail.date,
          amount |-> tail.amount,
          end |-> tail.end])

MatchAt(s, i, w) == MatchGroups(s, i, w, PatternTail(s, w)[1])

\* greedy group 1: from start i, the last keyword position the run from i reaches
LongestFrom(s, pos, viable, i) ==
    MatchAt(s, i, Max({w \in viable : GroupStart(s, pos, w) <= i}))

\* the leftmost start among the keyword positions a non-empty group 1 can precede
LeftmostAmong(s, pos, viable) ==
    IF viable = {} THEN None
    ELSE LongestFrom(s, pos, viable, Min({GroupStart(s, pos, w) : w \in viable}))

\* The match re.findall finds next from index pos on, None when there is none.
NextTransactionMatch(s, pos) ==
    LeftmostAmong(s, pos, {w \in (pos + 1)..Len(s) :
                              PatternTail(s, w) # None /\ GroupStart(s, pos, w) < w})

\* re.findall: the matches in order, each search starting where the last match ended
RECURSIVE FindAllTransactions(_, _)
MatchAndRest(s, match) ==
    IF match = None THEN <<>> ELSE match \o FindAllTransactions(s, match[1].end)

FindAllTransactions(s, pos) == MatchAndRest(s, NextTransactionMatch(s, pos))

\* faulty variant: owner and relationship are left without their default
RegexTransactionWithoutDefault(match) ==
    [asset |-> Strip(match.asset),
     transaction_type |-> match.transaction_type,
     date |-> match.date,
     amount |-> match.amount,
     ticker |-> extract_ticker(match.asset),
     owner |-> "",
     relationship |-> ""]

RegexTransaction(match) ==
    [asset |-> Strip(match.asset),
     transaction_type |-> match.transaction_type,
     date |-> match.date,
     amount |-> match.amount,
     ticker |-> extract_ticker(match.asset),
     owner |-> "self",
     relationship |-> "self"]

RegexTransactions(matches) == [k \in 1..Len(matches) |-> RegexTransaction(matches[k])]

parse_with_regex(html_content) == RegexTransactions(FindAllTransactions(html_content, 1))

(***************************************************************************)
(* The chain.  calls lists the strategies invoked, in order, each with     *)
(* what it returned; raised tells that an exception left the chain.        *)
(***************************************************************************)
Call(name, out) == [name |-> name, transactions |-> out]

\* after `transactions = self.parse_with_regex(html_content)`
ChainAfterRegex(regex) ==
    [calls |-> <<Call("parse_tables", <<>>), Call("parse_alternative", <<>>),
                 Call("parse_with_regex", regex)>>,
     raised |-> FALSE,
     transactions |-> regex]

\* faulty variant: strategy 3 runs without its `if not transactions` guard
ChainRegexUnguarded(alternative, regex) ==
    [calls |-> <<Call("parse_tables", <<>>), Call("parse_alternative", alternative),
                 Call("parse_with_regex", regex)>>,
     raised |-> FALSE,
     transactions |-> regex]

ChainAfterAlternativeUnguarded(d, alternative) ==
    ChainRegexUnguarded(alternative, parse_with_regex(Html(d)))

\* after `transactions = self.parse_alternative(soup)`
ChainAfterAlternative(d, alternative) ==
    IF alternative # <<>>
    THEN [calls |-> <<Call("parse_tables", <<>>), Call("parse_alternative", alternative)>>,
          raised |-> FALSE,
          transactions |-> alternative]
    ELSE ChainAfterRegex(parse_with_regex(Html(d)))

\* after `transactions = self.parse_tables(soup)`
ChainAfterTables(d, tables) ==
    IF tables.raised
    THEN [calls |-> <<[name |-> "parse_tables"]>>, raised |-> TRUE, transactions |-> <<>>]
    ELSE IF tables.transactions # <<>>
    THEN [calls |-> <<Call("parse_tables", tables.transactions)>>,
          raised |-> FALSE,
          transactions |-> tables.transactions]
    ELSE ChainAfterAlternative(d, parse_alternative(d))

\* faulty variant: the transactions of the last call are kept and the new ones added
extract_transactions_accumulating(d) ==
    IF parsed = None THEN ChainAfterTables(d, parse_tables(d))
    ELSE [ChainAfterTables(d, parse_tables(d)) EXCEPT
             !.transactions = parsed[1].transactions \o @]

extract_transactions_with_fallback(d) == ChainAfterTables(d, parse_tables(d))

RECURSIVE Pow2(_)
Pow2(n) == IF n = 0 THEN 1 ELSE 2 * Pow2(n - 1)

(***************************************************************************)
(* The environment of a download: what the render backend and the HTTP     *)
(* session can answer.                                                     *)
(***************************************************************************)
Doc(tables, divs, text) == [tables |-> tables, divs |-> divs, text |-> text]

EmptyDoc == Doc(<<>>, <<>>, "")
HomeDoc == Doc(<<>>, <<>>, "Please agree to the statement")
NoTransactionsDoc == Doc(<<>>, <<>>, "No transactions")
UnparsedDoc == Doc(<<>>, <<>>, "Report")
TableDoc ==
    Doc(<< << <<"Asset", "Type", "Amount">>,
              <<"Apple Inc (AAPL)", "Purchase", "$1,001-$15,000">> >> >>, <<>>, "")
ShortRowDoc ==
    Doc(<< << <<"Owner", "Type", "Date", "Asset">>,
              <<"Self", "Sale", "01/02/2023">> >> >>, <<>>, "")

\* the documents a report URL can serve
FetchDocs == {EmptyDoc, NoTransactionsDoc, UnparsedDoc, TableDoc, ShortRowDoc}

HomeTitle == "eFD: Home"
ReportTitle == "eFD: Print Report"

\* the pages driver.get can end on: the gate's home page, or the report (page_source
\* is the browser's serialisation of a DOM, which is never the empty string)
Pages ==
    {[title |-> HomeTitle, source |-> HomeDoc]}
        \cup {[title |-> ReportTitle, source |-> d] : d \in FetchDocs \ {EmptyDoc}}

\* the responses session.get can return
Responses ==
    {[status_code |-> 200, text |-> d] : d \in FetchDocs \cup {HomeDoc}}
        \cup {[status_code |-> 503, text |-> EmptyDoc]}

Urls == {"https://efdsearch.senate.gov/search/view/ptr/1/",
         "https://efdsearch.senate.gov/search/view/ptr/2/"}

\* a report_data dict as search_reports builds it
ReportData(name, link) ==
    [name |-> name, link |-> link, date_filed |-> "01/02/2023",
     office |-> "Senator", report_type |-> "Periodic Transaction Report"]

ReportDatas ==
    {ReportData("Jane Doe", "https://efdsearch.senate.gov/search/view/ptr/1/"),
     ReportData("John Roe", "https://efdsearch.senate.gov/search/view/ptr/2/")}

\* a report_data dict that lacks some of its keys; every reference carries its link
OptionalKeys == {"name", "date_filed", "office", "report_type"}

PartialReportDatas ==
    {[k \in {"link"} \cup keys |-> rd[k]] : rd \in ReportDatas, keys \in SUBSET OptionalKeys}

\* dict.get(key): the value, or None when the key is missing
Get(d, key) == IF key \in DOMAIN d THEN Some(d[key]) ELSE None

\* the largest max_retries a caller passes to download
MaxRetriesBound == 5

\* def download_report_with_enhanced_retry(self, report_data, max_retries=5)
DefaultMaxRetries == 5

\* faulty variant: the boundary between the two strategies is off by one
UsesRenderOffByOne(a) == a <= 3

\* faulty variant: every attempt goes through the render backend
UsesRenderAlways(a) == TRUE

\* `if attempt < 3`: the attempts that go through the render backend
UsesRender(a) == a < 3

\* `"eFD: Home" in self.driver.title`
IsRedirected(p) == Contains(p.title, HomeTitle)

\* `if not html_content`: None and the empty string are both falsy
IsFalsy(html) == html = None \/ Html(html[1]) = ""

(***************************************************************************)
(* The session: establish_session of the extractor and establish_session_once *)
(* of the scraper.  A cookie jar is a set of [name, value] records with     *)
(* distinct names; the gate is the page at base_url + "/search/".          *)
(***************************************************************************)
BaseUrl == "https://efdsearch.senate.gov"
GateUrl == BaseUrl \o "/search/"

Cookie(name, value) == [name |-> name, value |-> value]

\* cookies.set(name, value) for every cookie of `new`: same-named cookies are replaced
SetCookies(jar, new) == {c \in jar : \A n \in new : n.name # c.name} \cup new

\* what the render backend can do with the gate: driver.get raises (not loaded), the
\* consent control never becomes clickable or get_cookies raises (loaded, not
\* accepted), or the agreement is accepted and the driver holds these cookies
DriverCookies ==
    {{Cookie("sessionid", "render-1")},
     {Cookie("sessionid", "render-2"), Cookie("csrftoken", "render-2")}}

RenderConsents ==
    {[loaded |-> FALSE, accepted |-> FALSE, cookies |-> {}],
     [loaded |-> TRUE, accepted |-> FALSE, cookies |-> {}]}
        \cup {[loaded |-> TRUE, accepted |-> TRUE, cookies |-> c] : c \in DriverCookies}

\* what session.get(gate) can answer: whether the text holds "agree_statement", the
\* action of the form with id agreement_form (form None: no such form; action None:
\* no action attribute), and the cookies the response sets in the session
GateResponse(raises, agree, form, set_cookies) ==
    [raises |-> raises, agree_statement |-> agree, form |-> form, set_cookies |-> set_cookies]

GateResponses ==
    {GateResponse(TRUE, FALSE, None, {}),
     GateResponse(FALSE, FALSE, None, {}),
     GateResponse(FALSE, TRUE, None, {}),
     GateResponse(FALSE, TRUE, Some(None), {}),
     GateResponse(FALSE, TRUE, Some(Some("/search/home/")), {Cookie("csrftoken", "http-1")}),
     GateResponse(FALSE, TRUE, Some(Some("https://efdsearch.senate.gov/search/home/")), {})}

\* what session.post(action) can answer
PostResponses ==
    {[raises |-> TRUE, status_code |-> 0, set_cookies |-> {}],
     [raises |-> FALSE, status_code |-> 200, set_cookies |-> {Cookie("sessionid", "http-1")}],
     [raises |-> FALSE, status_code |-> 403, set_cookies |-> {}]}

\* the answers of the gate met while a report is downloaded or a run is under way
RunConsents ==
    {[loaded |-> FALSE, accepted |-> FALSE, cookies |-> {}],
     [loaded |-> TRUE, accepted |-> TRUE, cookies |-> {Cookie("sessionid", "render-1")}]}

RefreshGates ==
    {GateResponse(FALSE, FALSE, None, {}),
     GateResponse(FALSE, TRUE, Some(Some("/search/home/")), {Cookie("csrftoken", "http-1")})}

RefreshPosts ==
    {[raises |-> FALSE, status_code |-> 200, set_cookies |-> {Cookie("sessionid", "http-1")}],
     [raises |-> FALSE, status_code |-> 403, set_cookies |-> {}]}

\* in the runs of the scraper the gate's plain page carries no agreement form, so
\* that the session is established through the render backend or not at all
RunGates == {GateResponse(FALSE, FALSE, None, {})}

RunPosts == {[raises |-> FALSE, status_code |-> 403, set_cookies |-> {}]}

Step(op, target) == [op |-> op, url |-> target]

\* urljoin(base_url, action) for a base without a path: an absolute action replaces
\* the base, an action that starts with "/" is appended to it
urljoin(base, action) ==
    IF StartsWithAtI(action, 1, "https://") THEN action ELSE base \o action

\* establish_session posts to urljoin(base_url, action), establish_session_once to
\* f"{self.base_url}{action}"
PostUrl(kind, action) ==
    IF kind = "establish_session" THEN urljoin(BaseUrl, action) ELSE BaseUrl \o action

\* `if agreement_form:` and `if action:` after `"agree_statement" in response.text`
HasFormAction(gate) ==
    /\ gate.agree_statement
    /\ gate.form # None
    /\ gate.form[1] # None
    /\ gate.form[1][1] # ""

\* the body of the first try block: load the gate, wait for the consent control, click
\* it, copy the driver's cookies into the session.  ok: reached `return True`;
\* raised: an exception left the body; produced: the cookies it set in the session
RenderBody(consent) ==
    [ok |-> consent.loaded /\ consent.accepted,
     raised |-> ~(consent.loaded /\ consent.accepted),
     steps |-> <<Step("driver.get", GateUrl)>>
                 \o (IF consent.loaded /\ consent.accepted
                     THEN <<Step("click", "agree_statement"), Step("cookies.set", "")>>
                     ELSE <<>>),
     produced |-> IF consent.loaded /\ consent.accepted THEN consent.cookies ELSE {},
     loaded |-> consent.loaded]

\* the body of the second try block: get the gate, find the agreement form and its
\* action, post the agreement; ok when the post answers 200
DirectBody(kind, gate, post) ==
    IF gate.raises
    THEN [ok |-> FALSE, raised |-> TRUE,
          steps |-> <<Step("session.get", GateUrl)>>, produced |-> {}]
    ELSE IF ~HasFormAction(gate)
    THEN [ok |-> FALSE, raised |-> FALSE,
          steps |-> <<Step("session.get", GateUrl)>>, produced |-> gate.set_cookies]
    ELSE IF post.raises
    THEN [ok |-> FALSE, raised |-> TRUE,
          steps |-> <<Step("session.get", GateUrl),
                      Step("session.post", PostUrl(kind, gate.form[1][1]))>>,
          produced |-> gate.set_cookies]
    ELSE [ok |-> post.status_code = 200, raised |-> FALSE,
          steps |-> <<Step("session.get", GateUrl),
                      Step("session.post", PostUrl(kind, gate.form[1][1]))>>,
          produced |-> SetCookies(gate.set_cookies, post.set_cookies)]

\* faulty variant: the except clause lets the exception go on
CatchExceptionReraising(body) == body

\* `except Exception as e: logger.warning(...)`: the exception ends here
CatchException(body) == [body EXCEPT !.raised = FALSE]

\* after the second try block: `return True` from inside it, else `return False`
AfterDirect(render, direct) ==
    [result |-> direct.ok,
     raised |-> direct.raised,
     steps |-> render.steps \o direct.steps,
     produced |-> direct.produced,
     loaded |-> render.loaded]

\* faulty variant: the direct strategy runs whatever the render strategy achieved
AfterRenderAlwaysDirect(kind, render, gate, post) ==
    AfterDirect(render, CatchException(DirectBody(kind, gate, post)))

\* after the first try block: `return True` from inside it, else strategy 2
AfterRender(kind, render, gate, post) ==
    IF render.raised
    THEN [result |-> FALSE, raised |-> TRUE, steps |-> render.steps,
          produced |-> {}, loaded |-> render.loaded]
    ELSE IF render.ok
    THEN [result |-> TRUE, raised |-> FALSE, steps |-> render.steps,
          produced |-> render.produced, loaded |-> render.loaded]
    ELSE AfterDirect(render, CatchException(DirectBody(kind, gate, post)))

\* the two strategies in the order both methods run them
RunStrategies(kind, consent, gate, post) ==
    AfterRender(kind, CatchException(RenderBody(consent)), gate, post)

\* def establish_session(self): never looks at or sets session_established and never
\* clears the session's cookies
establish_session(consent, gate, post) ==
    RunStrategies("establish_session", consent, gate, post)

\* faulty variant: the strategies run whether or not a session is established
establish_session_once_always(established, consent, gate, post) ==
    RunStrategies("establish_session_once", consent, gate, post)

\* def establish_session_once(self): `if not self.session_established` run the
\* strategies, else log "Session already established" and return True
establish_session_once(established, consent, gate, post) ==
    IF ~established
    THEN RunStrategies("establish_session_once", consent, gate, post)
    ELSE [result |-> TRUE, raised |-> FALSE, steps |-> <<>>, produced |-> {}, loaded |-> FALSE]

\* what the gate answered to an acquisition that ran the strategies: the render
\* strategy's outcome, the gate's response when the direct strategy asked for it, the
\* response to the post when the agreement was posted
Answers(consent, gate, post) ==
    [consent |-> consent,
     gate |-> IF consent.loaded /\ consent.accepted THEN None ELSE Some(gate),
     post |-> IF (consent.loaded /\ consent.accepted) \/ gate.raises \/ ~HasFormAction(gate)
              THEN None ELSE Some(post)]

\* the record kept of an acquisition call
Acquisition(kind, established, jar, answers, out) ==
    [kind |-> kind,
     established_before |-> established,
     cookies_before |-> jar,
     answers |-> IF out.steps = <<>> THEN None ELSE Some(answers),
     steps |-> out.steps,
     produced |-> out.produced,
     raised |-> out.raised,
     result |-> out.result]

\* the gate page the render backend shows after driver.get(gate)
GatePage == [title |-> HomeTitle, source |-> HomeDoc]

(***************************************************************************)
(* download_report_with_enhanced_retry.                                    *)
(***************************************************************************)
NewAttempt(a) ==
    [index |-> a,
     strategy |-> IF UsesRender(a) THEN "render" ELSE "http",
     gets |-> <<>>,          \* the loads made: <<backend, url>>
     refreshes |-> 0,        \* establish_session calls
     marker |-> FALSE,       \* the first load ended on the home page
     outcome |-> "running",  \* "document", "exception", "status" or "marker"
     delay |-> 0]            \* seconds slept after the attempt, 0 when none

Last == log[Len(log)]
SetLast(entry) == [log EXCEPT ![Len(log)] = entry]
WithGet(entry, backend) == [entry EXCEPT !.gets = Append(@, <<backend, url>>)]

UnchangedCall == UNCHANGED <<caller, maxRetries, url, report_data>>
UnchangedParse == UNCHANGED <<report, doc, parsed, failure, saved>>
UnchangedSession == UNCHANGED <<cookies, session_established, acq>>
UnchangedElsewhere ==
    UNCHANGED <<fetchers, driverCookies, input, tickerOut, ownerOut, parses,
                headerCells, headerMapOut>>
UnchangedRun ==
    UNCHANGED <<run, stage, outer, queue, processed, handled, knownQueue, searches, outcome>>

\* process_report(report_data) is entered by `who`: it downloads with the default
\* max_retries; the locals and the histories of the call start empty.  Its first
\* statement reads report_data['name']: a KeyError leaves process_report when the key
\* is missing
StartProcessReport(rd, who) ==
    /\ pc' = IF "name" \in DOMAIN rd THEN "loop" ELSE "raised"
    /\ caller' = "process_report"
    /\ maxRetries' = DefaultMaxRetries
    /\ url' = rd.link
    /\ report_data' = rd
    /\ attempt' = 0
    /\ result' = None
    /\ log' = <<>>
    /\ report' = None
    /\ doc' = None
    /\ parsed' = None
    /\ failure' = None
    /\ saved' = None
    /\ outer' = who
    /\ acq' = None

\* an orchestrator calls process_report on its own
CallProcessReport(rd) ==
    /\ pc = "idle"
    /\ StartProcessReport(rd, "none")
    /\ UNCHANGED <<page, cookies, session_established>>
    /\ UNCHANGED <<run, stage, queue, processed, handled, knownQueue, searches, outcome>>
    /\ UnchangedElsewhere

\* a caller downloads directly, with max_retries = n
CallDownload(rd, n) ==
    /\ pc = "idle"
    /\ pc' = IF "name" \in DOMAIN rd THEN "loop" ELSE "raised"
    /\ caller' = "download"
    /\ maxRetries' = n
    /\ url' = rd.link
    /\ report_data' = rd
    /\ attempt' = 0
    /\ UNCHANGED <<page, result, log>>
    /\ UnchangedParse
    /\ UnchangedSession
    /\ UnchangedRun
    /\ UnchangedElsewhere

\* `for attempt in range(max_retries)`: the next attempt starts, or the loop is
\* exhausted and the download returns None
LoopHead ==
    /\ pc = "loop"
    /\ IF attempt < maxRetries
       THEN /\ pc' = IF UsesRender(attempt) THEN "render" ELSE "http"
            /\ log' = Append(log, NewAttempt(attempt))
            /\ UNCHANGED result
       ELSE /\ pc' = "returned"
            /\ result' = None
            /\ UNCHANGED log
    /\ UNCHANGED <<attempt, page>>
    /\ UnchangedCall
    /\ UnchangedSession
    /\ UnchangedRun
    /\ UnchangedParse
    /\ UnchangedElsewhere

\* faulty variant: every first load is followed by a refresh
AfterFirstLoadAlwaysRefresh(p) == "refresh"

\* where a render load that did not raise leads, first load or reload
AfterFirstLoad(p) == IF IsRedirected(p) THEN "refresh" ELSE "returned"

\* faulty variant: a reload that still shows the home page refreshes the session again
AfterReloadRefreshingAgain(p) == IF IsRedirected(p) THEN "refresh" ELSE "returned"

AfterReload(p) == IF IsRedirected(p) THEN "loop" ELSE "returned"

\* self.driver.get(url), the title check and, off the home page, return page_source
RenderLoad(raises, p) ==
    /\ pc = "render"
    /\ IF raises
       THEN /\ pc' = "except"
            /\ log' = SetLast(WithGet(Last, "render"))
            /\ UNCHANGED <<page, result>>
       ELSE /\ pc' = AfterFirstLoad(p)
            /\ page' = Some(p)
            /\ IF AfterFirstLoad(p) = "refresh"
               THEN /\ log' = SetLast([WithGet(Last, "render") EXCEPT !.marker = TRUE])
                    /\ UNCHANGED result
               ELSE /\ log' = SetLast([WithGet(Last, "render") EXCEPT !.outcome = "document"])
                    /\ result' = Some(p.source)
    /\ UNCHANGED attempt
    /\ UnchangedCall
    /\ UnchangedSession
    /\ UnchangedRun
    /\ UnchangedParse
    /\ UnchangedElsewhere

\* what an acquisition leaves in the session: the cookies it produced are set in the
\* jar, nothing is removed from it
SessionAfter(out) == cookies' = SetCookies(cookies, out.produced)

\* what the driver shows after an acquisition: the gate when driver.get(gate) ended
PageAfter(out) == IF out.loaded THEN Some(GatePage) ELSE page

\* self.establish_session(): its result is not looked at
\* faulty variant: a failed refresh ends the download
AfterRefreshGivingUp(out) == IF out.result THEN "reload" ELSE "returned"

\* `self.establish_session()` is a statement: its value is dropped and the next
\* statement is the second driver.get(url)
AfterRefresh(out) == "reload"

\* faulty variant: the flag follows the outcome of the refresh
FlagAfterRefreshFollowingOutcome(flag, out) == out.result

\* establish_session assigns nothing to session_established, which is an attribute of
\* the scraper alone
FlagAfterRefresh(flag, out) == flag

Refresh(consent, gate, post) ==
    /\ pc = "refresh"
    /\ pc' = AfterRefresh(establish_session(consent, gate, post))
    /\ session_established' =
          FlagAfterRefresh(session_established, establish_session(consent, gate, post))
    /\ log' = SetLast([Last EXCEPT !.refreshes = @ + 1])
    /\ SessionAfter(establish_session(consent, gate, post))
    /\ page' = PageAfter(establish_session(consent, gate, post))
    /\ acq' = Some(Acquisition("establish_session", session_established, cookies,
                               Answers(consent, gate, post),
                               establish_session(consent, gate, post)))
    /\ UNCHANGED <<attempt, result>>
    /\ UnchangedCall
    /\ UnchangedRun
    /\ UnchangedParse
    /\ UnchangedElsewhere

\* the second self.driver.get(url) of the attempt: `continue` when the home page is
\* still shown, else return page_source
Reload(raises, p) ==
    /\ pc = "reload"
    /\ IF raises
       THEN /\ pc' = "except"
            /\ log' = SetLast(WithGet(Last, "render"))
            /\ UNCHANGED <<attempt, page, result>>
       ELSE /\ pc' = AfterReload(p)
            /\ page' = Some(p)
            /\ IF AfterReload(p) = "loop"
               THEN /\ log' = SetLast([WithGet(Last, "render") EXCEPT !.outcome = "marker"])
                    /\ attempt' = attempt + 1
                    /\ UNCHANGED result
               ELSE /\ log' = SetLast([WithGet(Last, "render") EXCEPT !.outcome = "document"])
                    /\ result' = Some(p.source)
                    /\ UNCHANGED attempt
    /\ UnchangedCall
    /\ UnchangedSession
    /\ UnchangedRun
    /\ UnchangedParse
    /\ UnchangedElsewhere

\* response = self.session.get(url): return response.text on status 200, else log
\* a warning and fall through to the next attempt
HttpGet(raises, response) ==
    /\ pc = "http"
    /\ IF raises
       THEN /\ pc' = "except"
            /\ log' = SetLast(WithGet(Last, "http"))
            /\ UNCHANGED <<attempt, result>>
       ELSE IF response.status_code = 200
       THEN /\ pc' = "returned"
            /\ log' = SetLast([WithGet(Last, "http") EXCEPT !.outcome = "document"])
            /\ result' = Some(response.text)
            /\ UNCHANGED attempt
       ELSE /\ pc' = "loop"
            /\ log' = SetLast([WithGet(Last, "http") EXCEPT !.outcome = "status"])
            /\ attempt' = attempt + 1
            /\ UNCHANGED result
    /\ UNCHANGED page
    /\ UnchangedCall
    /\ UnchangedSession
    /\ UnchangedRun
    /\ UnchangedParse
    /\ UnchangedElsewhere

\* faulty variant: the except clause sleeps after the last attempt too
BackoffAfterEveryException(a, max_retries) == Pow2(a)

\* the seconds the except clause sleeps after attempt a, 0 when it does not sleep
BackoffAfterException(a, max_retries) == IF a < max_retries - 1 THEN Pow2(a) ELSE 0

\* except Exception: log the error, sleep 2 ** attempt unless this was the last attempt
Except ==
    /\ pc = "except"
    /\ pc' = "loop"
    /\ log' = SetLast([Last EXCEPT !.outcome = "exception",
                                   !.delay = BackoffAfterException(attempt, maxRetries)])
    /\ attempt' = attempt + 1
    /\ UNCHANGED <<page, result>>
    /\ UnchangedCall
    /\ UnchangedSession
    /\ UnchangedRun
    /\ UnchangedParse
    /\ UnchangedElsewhere

\* the download called directly hands its result to its caller
DownloadReturns ==
    /\ pc = "returned"
    /\ caller = "download"
    /\ pc' = "done"
    /\ UNCHANGED <<attempt, page, result, log>>
    /\ UnchangedCall
    /\ UnchangedSession
    /\ UnchangedRun
    /\ UnchangedParse
    /\ UnchangedElsewhere

(***************************************************************************)
(* process_report, from the return of the download on.                     *)
(***************************************************************************)
\* faulty variant: the marker is not looked at
extraction_success_without_marker(transactions, html) == Len(transactions) > 0

\* 'extraction_success': len(transactions) > 0 or 'No transactions' in html_content
extraction_success(transactions, html) ==
    Len(transactions) > 0 \/ Contains(html, "No transactions")

\* the record process_report builds; its extraction_date, the time of the call, is
\* left out
ReportRecord(rd, d, transactions) ==
    [name |-> rd.name,
     link |-> rd.link,
     date_filed |-> Get(rd, "date_filed"),
     office |-> Get(rd, "office"),
     report_type |-> Get(rd, "report_type"),
     transactions |-> transactions,
     transaction_count |-> Len(transactions),
     extraction_success |-> extraction_success(transactions, Html(d))]

RECURSIVE ReplaceFrom(_, _, _, _)
ReplaceFrom(s, i, old, new) ==
    IF i > Len(s) THEN ""
    ELSE (IF CharAt(s, i) = old THEN new ELSE CharAt(s, i)) \o ReplaceFrom(s, i + 1, old, new)

\* html_file: the fixed directory, then report_data['name'].replace(' ', '_'), then
\* ".html"
RawHtmlFile(name) ==
    "C:\\EMPIRE\\SATORI_Scraper\\data\\raw\\senate\\" \o ReplaceFrom(name, 1, " ", "_") \o ".html"

\* after the parser chain returned or raised: build the record, write the document
\* to html_file and return the record; an exception of the chain, or of open() when
\* the file cannot be written, leaves process_report
ProcessReportParsed(out) ==
    /\ doc' = result
    /\ parsed' = Some(out)
    /\ UNCHANGED failure
    /\ \E writable \in BOOLEAN :
          IF out.raised \/ ~writable
          THEN /\ pc' = "raised"
               /\ UNCHANGED <<report, saved>>
          ELSE /\ pc' = "done"
               /\ report' = Some(ReportRecord(report_data, result[1], out.transactions))
               /\ saved' = Some([path |-> RawHtmlFile(report_data.name),
                                 content |-> result[1]])

\* no document: log "Failed to download report" and return None; else parse and
\* build the record
ProcessReportContinues ==
    /\ pc = "returned"
    /\ caller = "process_report"
    /\ IF IsFalsy(result)
       THEN /\ pc' = "fetch_failed"
            /\ failure' = Some([reference |-> report_data.name])
            /\ UNCHANGED <<report, doc, parsed, saved>>
       ELSE ProcessReportParsed(extract_transactions_with_fallback(result[1]))
    /\ UNCHANGED <<attempt, page, result, log>>
    /\ UnchangedCall
    /\ UnchangedSession
    /\ UnchangedRun
    /\ UnchangedElsewhere

\* the threads that download through one extractor
Fetchers == {1, 2}

\* the scraper after __init__: an empty requests.Session, session_established False,
\* nothing called yet
Constructed ==
    /\ report_data = None
    /\ failure = None
    /\ saved = None
    /\ cookies = {}
    /\ session_established = FALSE
    /\ acq = None
    /\ run = "none"
    /\ stage = "none"
    /\ outer = "none"
    /\ queue = <<>>
    /\ processed = <<>>
    /\ handled = <<>>
    /\ knownQueue = <<>>
    /\ searches = <<>>
    /\ outcome = None
    /\ fetchers = [t \in Fetchers |-> [at |-> "idle", accepted |-> FALSE, pending |-> <<>>]]
    /\ driverCookies = {}
    /\ input = ""
    /\ tickerOut = None
    /\ ownerOut = ""
    /\ parses = <<>>
    /\ headerCells = <<>>
    /\ headerMapOut = None

Init ==
    /\ pc = "idle"
    /\ caller = "none"
    /\ maxRetries = 0
    /\ url = ""
    /\ attempt = 0
    /\ page = None
    /\ result = None
    /\ log = <<>>
    /\ report = None
    /\ doc = None
    /\ parsed = None
    /\ Constructed

Next ==
    \/ \E rd \in ReportDatas : CallProcessReport(rd)
    \/ \E rd \in ReportDatas, n \in 0..MaxRetriesBound : CallDownload(rd, n)
    \/ LoopHead
    \/ \E raises \in BOOLEAN, p \in Pages : RenderLoad(raises, p)
    \/ \E consent \in RunConsents, gate \in RefreshGates, post \in RefreshPosts :
          Refresh(consent, gate, post)
    \/ \E raises \in BOOLEAN, p \in Pages : Reload(raises, p)
    \/ \E raises \in BOOLEAN, response \in Responses : HttpGet(raises, response)
    \/ Except
    \/ DownloadReturns
    \/ ProcessReportContinues

Spec == Init /\ [][Next]_vars

(***************************************************************************)
(* The session on its own: a caller acquires the session again and again,  *)
(* through establish_session or establish_session_once, against every      *)
(* answer of the gate.                                                     *)
(***************************************************************************)
Returned(op, value) == Some([op |-> op, value |-> value])

\* establish_session_once() called in the current state
Once(consent, gate, post) ==
    establish_session_once(session_established, consent, gate, post)

\* the flag an establish_session_once call leaves: set on success and otherwise left as
\* it was
AcquireOnce(consent, gate, post) ==
    /\ session_established' = (session_established \/ Once(consent, gate, post).result)
    /\ acq' = Some(Acquisition("establish_session_once", session_established, cookies,
                               Answers(consent, gate, post), Once(consent, gate, post)))

UnchangedReport ==
    UNCHANGED <<caller, maxRetries, url, attempt, result, log, report, doc, parsed,
                report_data, failure, saved>>

\* a caller calls establish_session()
EstablishSession(consent, gate, post) ==
    /\ pc = "idle"
    /\ SessionAfter(establish_session(consent, gate, post))
    /\ page' = PageAfter(establish_session(consent, gate, post))
    /\ acq' = Some(Acquisition("establish_session", session_established, cookies,
                               Answers(consent, gate, post),
                               establish_session(consent, gate, post)))
    /\ outcome' = Returned("establish_session", establish_session(consent, gate, post).result)
    /\ UNCHANGED <<pc, session_established>>
    /\ UnchangedReport
    /\ UNCHANGED <<run, stage, outer, queue, processed, handled, knownQueue, searches>>
    /\ UnchangedElsewhere

\* a caller calls establish_session_once()
EstablishSessionOnce(consent, gate, post) ==
    /\ pc = "idle"
    /\ AcquireOnce(consent, gate, post)
    /\ SessionAfter(Once(consent, gate, post))
    /\ page' = PageAfter(Once(consent, gate, post))
    /\ outcome' = Returned("establish_session_once", Once(consent, gate, post).result)
    /\ UNCHANGED pc
    /\ UnchangedReport
    /\ UNCHANGED <<run, stage, outer, queue, processed, handled, knownQueue, searches>>
    /\ UnchangedElsewhere

SessionNext ==
    \/ \E consent \in RenderConsents, gate \in GateResponses, post \in PostResponses :
          EstablishSession(consent, gate, post)
    \/ \E consent \in RenderConsents, gate \in GateResponses, post \in PostResponses :
          EstablishSessionOnce(consent, gate, post)

SessionSpec == Init /\ [][SessionNext]_vars

(***************************************************************************)
(* extract_ticker and identify_transaction_owner on their own: each is     *)
(* called on a text drawn from a pool of cell texts.                       *)
(***************************************************************************)

AssetHeads ==
    {"", "Apple Inc ", "Spouse IRA ", "Family Trust ", "BRK-B ", "Child Trust ", "JOINT account "}

AssetTails == {"", "(AAPL)", "[MSFT]", "- VOO", "VOO -", "(TOOLONG)", "(aapl)", "- ABCDEFG"}

AssetTexts ==
    {head \o tail : head \in AssetHeads, tail \in AssetTails}
        \cup {"Apple Inc (AAPL)", "Some Fund - VOO", "Unrelated text", "Spouse IRA",
               "Family Trust", "Johnson estate", "(A) (BB)", "my WIFE's minor"}

\* transaction['ticker'] = self.extract_ticker(asset)
ExtractTicker(t) ==
    /\ pc = "idle"
    /\ pc' = "ticker"
    /\ input' = t
    /\ tickerOut' = extract_ticker(t)
    /\ UNCHANGED <<caller, maxRetries, url, attempt, page, result, log, report, doc, parsed,
                   report_data, failure, saved, ownerOut, parses, fetchers, driverCookies,
                   headerCells, headerMapOut>>
    /\ UnchangedSession
    /\ UnchangedRun

\* transaction['relationship'] = self.identify_transaction_owner(owner)
IdentifyTransactionOwner(t) ==
    /\ pc = "idle"
    /\ pc' = "owner"
    /\ input' = t
    /\ ownerOut' = identify_transaction_owner(t)
    /\ UNCHANGED <<caller, maxRetries, url, attempt, page, result, log, report, doc, parsed,
                   report_data, failure, saved, tickerOut, parses, fetchers, driverCookies,
                   headerCells, headerMapOut>>
    /\ UnchangedSession
    /\ UnchangedRun

TextNext ==
    \/ \E t \in AssetTexts : ExtractTicker(t)
    \/ \E t \in AssetTexts : IdentifyTransactionOwner(t)

TextSpec == Init /\ [][TextNext]_vars

(***************************************************************************)
(* Two threads download through one extractor, and each finds the home     *)
(* page at the first load of a render attempt.  Nothing in the extractor   *)
(* orders the threads, so that a thread can be overtaken wherever it waits *)
(* for the driver or the network, and between two statements.  The steps   *)
(* of establish_session are those of its render strategy; the gate's plain *)
(* page carries no agreement form, as in the runs of the scraper.          *)
(***************************************************************************)

\* the cookies the browser holds once the agreement was accepted for the n-th time
IssuedCookies(n) ==
    {Cookie("sessionid", "render-" \o ToString(n)), Cookie("csrftoken", "render-" \o ToString(n))}

\* self.driver.get_cookies(): the cookies of the browser, as a list
get_cookies(jar) ==
    LET named(n) == {c \in jar : c.name = n}
        one(n) == IF named(n) = {} THEN <<>> ELSE <<CHOOSE c \in named(n) : TRUE>>
    IN  one("sessionid") \o one("csrftoken")

Acceptances == Cardinality({t \in Fetchers : fetchers[t].accepted})

UnchangedPipeline ==
    UNCHANGED <<pc, caller, maxRetries, url, attempt, page, result, log, report, doc, parsed,
                report_data, failure, saved, session_established, acq, run, stage, outer,
                queue,
                processed, handled, knownQueue, searches, outcome, input, tickerOut,
                ownerOut, parses, headerCells, headerMapOut>>

\* driver.get(url) of a render attempt shows "eFD: Home": the thread goes to
\* establish_session
FetchDetects(t) ==
    /\ fetchers[t].at = "idle"
    /\ fetchers' = [fetchers EXCEPT ![t].at = "refresh"]
    /\ UNCHANGED <<cookies, driverCookies>>
    /\ UnchangedPipeline

\* establish_session, strategy 1 up to the click: the gate is loaded and the agreement
\* accepted, and the browser gets its cookies
RefreshAccepts(t) ==
    /\ fetchers[t].at = "refresh"
    /\ fetchers' = [fetchers EXCEPT ![t].at = "accepted", ![t].accepted = TRUE]
    /\ driverCookies' = IssuedCookies(Acceptances + 1)
    /\ UNCHANGED cookies
    /\ UnchangedPipeline

\* establish_session, both strategies failing: the load of the gate raises and the
\* gate's plain page has no agreement form
RefreshFails(t) ==
    /\ fetchers[t].at = "refresh"
    /\ fetchers' = [fetchers EXCEPT ![t].at = "reload"]
    /\ UNCHANGED <<cookies, driverCookies>>
    /\ UnchangedPipeline

\* `for cookie in self.driver.get_cookies()`: the list is read from the browser
ReadDriverCookies(t) ==
    /\ fetchers[t].at = "accepted"
    /\ fetchers' = [fetchers EXCEPT ![t].at = "transfer",
                                    ![t].pending = get_cookies(driverCookies)]
    /\ UNCHANGED <<cookies, driverCookies>>
    /\ UnchangedPipeline

\* one turn of the loop: self.session.cookies.set(cookie['name'], cookie['value']);
\* after the last one, `return True`
TransferCookie(t) ==
    /\ fetchers[t].at = "transfer"
    /\ IF fetchers[t].pending # <<>>
       THEN /\ cookies' = SetCookies(cookies, {Head(fetchers[t].pending)})
            /\ fetchers' = [fetchers EXCEPT ![t].pending = Tail(@)]
       ELSE /\ fetchers' = [fetchers EXCEPT ![t].at = "reload"]
            /\ UNCHANGED cookies
    /\ UNCHANGED driverCookies
    /\ UnchangedPipeline

\* the download loads the report again
ReloadReport(t) ==
    /\ fetchers[t].at = "reload"
    /\ fetchers' = [fetchers EXCEPT ![t].at = "done"]
    /\ UNCHANGED <<cookies, driverCookies>>
    /\ UnchangedPipeline

ConcurrentNext ==
    \/ \E t \in Fetchers : FetchDetects(t)
    \/ \E t \in Fetchers : RefreshAccepts(t)
    \/ \E t \in Fetchers : RefreshFails(t)
    \/ \E t \in Fetchers : ReadDriverCookies(t)
    \/ \E t \in Fetchers : TransferCookie(t)
    \/ \E t \in Fetchers : ReloadReport(t)

ConcurrentSpec == Init /\ [][ConcurrentNext]_vars

(***************************************************************************)
(* process_report on references with partial metadata: the download        *)
(* succeeds at its first load, so that what happens is due to the metadata. *)
(***************************************************************************)

\* the report pages the first load shows
MetadataPages ==
    {[title |-> ReportTitle, source |-> d] : d \in {NoTransactionsDoc, UnparsedDoc, TableDoc}}

MetadataNext ==
    \/ \E rd \in PartialReportDatas : CallProcessReport(rd)
    \/ LoopHead
    \/ \E p \in MetadataPages : RenderLoad(FALSE, p)
    \/ ProcessReportContinues

MetadataSpec == Init /\ [][MetadataNext]_vars

(***************************************************************************)
(* The scraper's runs: main calls process_direct_url, run_daily_scrape or   *)
(* search_reports; run_daily_scrape searches today's and yesterday's        *)
(* reports, hands each non-empty result to process_reports, and falls back  *)
(* to the known URLs when both searches found nothing.                     *)
(***************************************************************************)

\* the longest list of reports a search returns
MaxReports == 2

Catalog ==
    <<ReportData("Jane Doe", "https://efdsearch.senate.gov/search/view/ptr/1/"),
      ReportData("John Roe", "https://efdsearch.senate.gov/search/view/ptr/2/"),
      ReportData("Ann Poe", "https://efdsearch.senate.gov/search/view/ptr/3/"),
      ReportData("Max Moe", "https://efdsearch.senate.gov/search/view/ptr/4/")>>

\* what a search can return: the empty list on every failure path
ReportLists == {SubSeq(Catalog, 1, n) : n \in 0..Min({MaxReports, Len(Catalog)})}

\* self.known_report_urls
KnownReportUrls ==
    <<"https://efdsearch.senate.gov/search/view/ptr/0bf421b2-cf4e-40d8-9c9f-98ba5e535c6c/">>

\* the report_data process_direct_url builds
DirectReportData(u) ==
    [name |-> "Direct URL Report", link |-> u, date_filed |-> "Unknown",
     office |-> "Unknown", report_type |-> "Periodic Transaction Report"]

OwnerTableDoc ==
    Doc(<< << <<"Owner", "Asset", "Type", "Amount">>,
              <<"Spouse", "Apple Inc (AAPL)", "Purchase", "$1,001-$15,000">> >> >>, <<>>, "")

\* what the reports of a run answer
RunPages == {GatePage, [title |-> ReportTitle, source |-> OwnerTableDoc]}

RunResponses ==
    {[status_code |-> 200, text |-> NoTransactionsDoc],
     [status_code |-> 503, text |-> EmptyDoc]}

\* the page the driver is left on by a search, and the cookies its API request sets
SearchPages == {GatePage, [title |-> "eFD: Find Reports", source |-> UnparsedDoc]}

SearchApiCookies == {{}, {Cookie("csrftoken", "http-1")}}

\* faulty variant: the record is rebuilt without its first transaction
DirectUrlRecordDroppingFirst(r) ==
    [r EXCEPT !.transactions = IF @ = <<>> THEN @ ELSE Tail(@)]

\* process_direct_url on the record process_report returned: the name is rewritten
\* from the owner of the first transaction, when there is one
DirectUrlRecord(r) ==
    IF r.transactions # <<>> /\ "owner" \in DOMAIN r.transactions[1]
    THEN [r EXCEPT !.name = "Direct URL Report (" \o r.transactions[1].owner \o ")"]
    ELSE r

\* process_report has returned to its caller: its locals are gone, and the histories
\* of the call with them
DropLocals ==
    /\ caller' = "none"
    /\ maxRetries' = 0
    /\ url' = ""
    /\ report_data' = None
    /\ attempt' = 0
    /\ result' = None
    /\ log' = <<>>
    /\ report' = None
    /\ doc' = None
    /\ parsed' = None
    /\ failure' = None
    /\ saved' = None
    /\ acq' = None

\* `if not self.establish_session_once(): ... return`: the caller goes on only with
\* a session
Proceeds(out) == out.result

\* faulty variant: the loop over the reports stops at the first failure
RestOfReportsStoppingAtFailure(reports, rec) == IF rec = None THEN <<>> ELSE Tail(reports)

\* the reports left to `for i, report in enumerate(reports)` after the first one,
\* whatever process_report returned for it
RestOfReports(reports, rec) == Tail(reports)

\* process_direct_url returns `value`: to main, or to the loop over the known URLs
DirectUrlReturns(mode, value) ==
    /\ outcome' = Returned("process_direct_url", value)
    /\ IF mode = "direct"
       THEN /\ pc' = "ended"
            /\ UNCHANGED knownQueue
       ELSE /\ pc' = "known"
            /\ knownQueue' = Tail(knownQueue)

\* process_direct_url(url) up to its call of process_report: return None when the
\* session cannot be established
EnterDirectUrl(mode, u, consent, gate, post) ==
    /\ session_established' = (session_established \/ Once(consent, gate, post).result)
    /\ SessionAfter(Once(consent, gate, post))
    /\ page' = PageAfter(Once(consent, gate, post))
    /\ IF Proceeds(Once(consent, gate, post))
       THEN /\ StartProcessReport(DirectReportData(u), "process_direct_url")
            /\ UNCHANGED <<knownQueue, outcome>>
       ELSE /\ DirectUrlReturns(mode, None)
            /\ acq' = Some(Acquisition("establish_session_once", session_established, cookies,
                                       Answers(consent, gate, post), Once(consent, gate, post)))
            /\ UnchangedReport
            /\ UNCHANGED outer

\* main, mode direct: process_direct_url(args.url)
RunDirect(u, consent, gate, post) ==
    /\ pc = "idle"
    /\ run = "none"
    /\ run' = "direct"
    /\ EnterDirectUrl("direct", u, consent, gate, post)
    /\ UNCHANGED <<stage, queue, processed, handled, searches>>
    /\ UnchangedElsewhere

\* process_direct_url after process_report returned: rename and save the record, or
\* log the failure and return None
DirectResult ==
    /\ pc \in {"done", "fetch_failed"}
    /\ outer = "process_direct_url"
    /\ DirectUrlReturns(run, IF report # None THEN Some(DirectUrlRecord(report[1])) ELSE None)
    /\ outer' = "none"
    /\ DropLocals
    /\ UNCHANGED <<page, cookies, session_established>>
    /\ UNCHANGED <<run, stage, queue, processed, handled, searches>>
    /\ UnchangedElsewhere

\* main, mode daily: run_daily_scrape up to its first search; return False when the
\* session cannot be established
RunDailyScrape(consent, gate, post) ==
    /\ pc = "idle"
    /\ run = "none"
    /\ run' = "daily"
    /\ AcquireOnce(consent, gate, post)
    /\ SessionAfter(Once(consent, gate, post))
    /\ page' = PageAfter(Once(consent, gate, post))
    /\ IF Proceeds(Once(consent, gate, post))
       THEN /\ pc' = "search"
            /\ stage' = "today"
            /\ UNCHANGED outcome
       ELSE /\ pc' = "ended"
            /\ outcome' = Returned("run_daily_scrape", FALSE)
            /\ UNCHANGED stage
    /\ UnchangedReport
    /\ UNCHANGED <<outer, queue, processed, handled, knownQueue, searches>>
    /\ UnchangedElsewhere

\* search_reports, called by run_daily_scrape or on its own: return [] when the
\* session cannot be established; else load the search page (an exception of that
\* load leaves search_reports), run the search and return the reports found, [] on
\* every failure of the search
SearchReports(consent, gate, post, raises, shown, api_cookies, found) ==
    /\ pc \in {"idle", "search"}
    /\ pc = "idle" => run = "none"
    /\ run' = IF pc = "idle" THEN "search" ELSE run
    /\ AcquireOnce(consent, gate, post)
    /\ IF ~Proceeds(Once(consent, gate, post))
       THEN /\ pc' = "searched"
            /\ SessionAfter(Once(consent, gate, post))
            /\ page' = PageAfter(Once(consent, gate, post))
            /\ searches' = Append(searches, <<>>)
            /\ outcome' = Returned("search_reports", <<>>)
       ELSE IF raises
       THEN /\ pc' = "raised"
            /\ SessionAfter(Once(consent, gate, post))
            /\ page' = PageAfter(Once(consent, gate, post))
            /\ UNCHANGED <<searches, outcome>>
       ELSE /\ pc' = "searched"
            /\ cookies' = SetCookies(SetCookies(cookies, Once(consent, gate, post).produced),
                                     api_cookies)
            /\ page' = Some(shown)
            /\ searches' = Append(searches, found)
            /\ outcome' = Returned("search_reports", found)
    /\ UnchangedReport
    /\ UNCHANGED <<stage, outer, queue, processed, handled, knownQueue>>
    /\ UnchangedElsewhere

\* search_reports called on its own hands its list to its caller
SearchReturns ==
    /\ pc = "searched"
    /\ run = "search"
    /\ pc' = "ended"
    /\ UNCHANGED page
    /\ UnchangedReport
    /\ UnchangedSession
    /\ UNCHANGED <<run, stage, outer, queue, processed, handled, knownQueue, searches, outcome>>
    /\ UnchangedElsewhere

\* run_daily_scrape moves on: from today's reports to yesterday's search; after
\* yesterday's reports to the known URLs when both searches found nothing, else to
\* `return True`
AdvanceStage ==
    IF stage = "today"
    THEN /\ pc' = "search"
         /\ stage' = "yesterday"
         /\ UNCHANGED <<knownQueue, outcome>>
    ELSE IF \A k \in 1..Len(searches) : searches[k] = <<>>
    THEN /\ pc' = "known"
         /\ stage' = "known"
         /\ knownQueue' = KnownReportUrls
         /\ UNCHANGED outcome
    ELSE /\ pc' = "ended"
         /\ outcome' = Returned("run_daily_scrape", TRUE)
         /\ UNCHANGED <<stage, knownQueue>>

\* run_daily_scrape after a search: `if reports:` call process_reports
DailyAfterSearch ==
    /\ pc = "searched"
    /\ run = "daily"
    /\ IF searches[Len(searches)] # <<>>
       THEN /\ pc' = "batch"
            /\ queue' = searches[Len(searches)]
            /\ processed' = <<>>
            /\ handled' = <<>>
            /\ UNCHANGED <<stage, knownQueue, outcome>>
       ELSE /\ AdvanceStage
            /\ UNCHANGED <<queue, processed, handled>>
    /\ UNCHANGED page
    /\ UnchangedReport
    /\ UnchangedSession
    /\ UNCHANGED <<run, outer, searches>>
    /\ UnchangedElsewhere

\* process_reports, head of `for i, report in enumerate(reports)`: call process_report
\* on the next report, or write the summary and return
BatchHead ==
    /\ pc = "batch"
    /\ IF queue # <<>>
       THEN /\ StartProcessReport(Head(queue), "process_reports")
            /\ UNCHANGED <<stage, knownQueue, outcome>>
       ELSE /\ AdvanceStage
            /\ UnchangedReport
            /\ UNCHANGED <<outer, acq>>
    /\ UNCHANGED <<page, cookies, session_established>>
    /\ UNCHANGED <<run, queue, processed, handled, searches>>
    /\ UnchangedElsewhere

\* process_reports after process_report returned: `if result:` save and append the
\* record, else log "Failed to process report"; then the next report
BatchResult ==
    /\ pc \in {"done", "fetch_failed"}
    /\ outer = "process_reports"
    /\ pc' = "batch"
    /\ outer' = "none"
    /\ queue' = RestOfReports(queue, report)
    /\ processed' = IF report # None THEN Append(processed, report[1]) ELSE processed
    /\ handled' = Append(handled, [reference |-> Head(queue),
                                   outcome |-> IF report # None THEN "processed" ELSE "failed"])
    /\ DropLocals
    /\ UNCHANGED <<page, cookies, session_established>>
    /\ UNCHANGED <<run, stage, knownQueue, searches, outcome>>
    /\ UnchangedElsewhere

\* run_daily_scrape, head of `for url in self.known_report_urls`: process_direct_url
\* on the next URL, or `return True`
KnownHead(consent, gate, post) ==
    /\ pc = "known"
    /\ IF knownQueue # <<>>
       THEN /\ EnterDirectUrl("daily", Head(knownQueue), consent, gate, post)
            /\ UNCHANGED stage
       ELSE /\ pc' = "ended"
            /\ outcome' = Returned("run_daily_scrape", TRUE)
            /\ UNCHANGED <<stage, knownQueue, page, outer>>
            /\ UnchangedReport
            /\ UnchangedSession
    /\ UNCHANGED <<run, queue, processed, handled, searches>>
    /\ UnchangedElsewhere

\* the session could not be established and the entry point has returned its
\* failure
AcquisitionFailed ==
    /\ pc = "ended"
    /\ acq # None
    /\ acq[1].kind = "establish_session_once"
    /\ ~acq[1].result
    /\ outcome # None
    /\ \/ outcome[1].op = "run_daily_scrape" /\ outcome[1].value = FALSE
       \/ outcome[1].op = "process_direct_url" /\ outcome[1].value = None
       \/ outcome[1].op = "search_reports" /\ outcome[1].value = <<>>

\* the caller of the run tries again after a failed acquisition
RunAgain ==
    /\ AcquisitionFailed
    /\ pc' = "idle"
    /\ run' = "none"
    /\ searches' = <<>>
    /\ outcome' = None
    /\ UNCHANGED page
    /\ UnchangedReport
    /\ UnchangedSession
    /\ UNCHANGED <<stage, outer, queue, processed, handled, knownQueue>>
    /\ UnchangedElsewhere

ScraperNext ==
    \/ \E u \in Urls, consent \in RunConsents, gate \in RunGates, post \in RunPosts :
          RunDirect(u, consent, gate, post)
    \/ \E consent \in RunConsents, gate \in RunGates, post \in RunPosts :
          RunDailyScrape(consent, gate, post)
    \/ \E consent \in RunConsents, gate \in RunGates, post \in RunPosts,
          raises \in BOOLEAN, shown \in SearchPages, api_cookies \in SearchApiCookies,
          found \in ReportLists :
          SearchReports(consent, gate, post, raises, shown, api_cookies, found)
    \/ SearchReturns
    \/ DailyAfterSearch
    \/ BatchHead
    \/ BatchResult
    \/ \E consent \in RunConsents, gate \in RunGates, post \in RunPosts :
          KnownHead(consent, gate, post)
    \/ DirectResult
    \/ RunAgain
    \/ LoopHead
    \/ \E raises \in BOOLEAN, p \in RunPages : RenderLoad(raises, p)
    \/ \E consent \in RunConsents, gate \in RunGates, post \in RunPosts :
          Refresh(consent, gate, post)
    \/ \E raises \in BOOLEAN, p \in RunPages : Reload(raises, p)
    \/ \E raises \in BOOLEAN, response \in RunResponses : HttpGet(raises, response)
    \/ Except
    \/ ProcessReportContinues

ScraperSpec == Init /\ [][ScraperNext]_vars

(***************************************************************************)
(* The parser chain on its own: a document is drawn from a pool built from *)
(* header rows, data rows, divs and free texts, and parsed.                *)
(***************************************************************************)

\* the most data rows of a generated table
MaxRows == 2

\* the most divs of a generated document
MaxDivs == 2

SeqsUpTo(S, n) == UNION {[1..k -> S] : k \in 0..n}

ScenarioHeader == <<"First Name", "Last Name", "Asset", "Transaction Type", "Date">>
ScenarioRow == <<"Jane", "Doe", "Apple Inc (AAPL) - Purchase", "Purchase", "01/02/2023">>

HeaderPool ==
    {ScenarioHeader,
     <<"Asset", "Ticker", "Amount">>,
     <<"Owner", "Type", "Date", "Asset">>,
     <<" Owner ", "SECURITY", "Value">>,
     <<"Filer", "Office", "Notes">>}

RowPool ==
    {ScenarioRow,
     <<"Apple Inc", "AAPL", "$1,001">>,
     <<"Spouse", "Sale", "01/02/2023", " Microsoft Corp [MSFT] ">>,
     <<"", "", "">>,
     <<"Total", "$5">>}

TablePool == {<<header>> \o rows : header \in HeaderPool, rows \in SeqsUpTo(RowPool, MaxRows)}

\* documents of several tables
TablePairs ==
    {<< <<ScenarioHeader, ScenarioRow>>,
        <<<<"Asset", "Ticker", "Amount">>, <<"Apple Inc", "AAPL", "$1,001">>>> >>,
     << <<ScenarioHeader>>,
        <<<<" Owner ", "SECURITY", "Value">>, <<"Joint account", "Tesla Inc - TSLA", "$5">>>> >>,
     << <<<<"Filer", "Office", "Notes">>, <<"a", "b", "c">>>>,
        <<ScenarioHeader, ScenarioRow, ScenarioRow>> >>,
     << <<<<"Asset", "Ticker", "Amount">>, <<"Apple Inc", "AAPL", "$1,001">>>>,
        <<<<"Owner", "Type", "Date", "Asset">>, <<"Self", "Sale", "01/02/2023">>>> >>}

DivPool ==
    {[class |-> "transaction-row", text |-> " Apple Inc Purchase 01/02/2023 $1,001-$15,000 "],
     [class |-> "Asset", text |-> "Microsoft Corp"],
     [class |-> "note", text |-> "Tesla Sale 03/04/2022 $15,001"],
     [class |-> "transaction", text |-> "$5,000 sale pending"]}

ScenarioText == "Goldman Sachs Group Purchase 03/04/2022 $1,001-$15,000"

TextPool == {"", ScenarioText, "No transactions", "Report"}

Docs ==
    {Doc(<<table>>, <<>>, "") : table \in TablePool}
        \cup {Doc(tables, <<>>, "") : tables \in TablePairs}
        \cup {Doc(<<>>, divs, text) : divs \in SeqsUpTo(DivPool, MaxDivs), text \in TextPool}
        \cup {Doc(<< <<header>> >>, <<div>>, text) :
                 header \in HeaderPool, div \in DivPool, text \in TextPool}

ParseInit ==
    /\ pc = "parser"
    /\ caller = "none"
    /\ maxRetries = 0
    /\ url = ""
    /\ attempt = 0
    /\ page = None
    /\ result = None
    /\ log = <<>>
    /\ report = None
    /\ doc \in {Some(d) : d \in Docs}
    /\ parsed = None
    /\ Constructed

\* transactions = self.extract_transactions_with_fallback(html_content)
ParseDocument ==
    /\ pc = "parser"
    /\ pc' = "parsed"
    /\ parsed' = Some(extract_transactions_with_fallback(doc[1]))
    /\ parses' = Append(parses, [doc |-> doc[1], out |-> extract_transactions_with_fallback(doc[1])])
    /\ UNCHANGED <<fetchers, driverCookies, input, tickerOut, ownerOut>>
    /\ UNCHANGED <<headerCells, headerMapOut>>
    /\ UNCHANGED <<caller, maxRetries, url, attempt, page, result, log, report, doc>>
    /\ UNCHANGED <<report_data, failure, saved>>
    /\ UnchangedSession
    /\ UnchangedRun

\* the most calls of the chain in a row
MaxParses == 3

\* the chain is called once more, on a document parsed before or on another one
ParseAgain(d) ==
    /\ pc = "parsed"
    /\ Len(parses) < MaxParses
    /\ doc' = Some(d)
    /\ parsed' = Some(extract_transactions_with_fallback(d))
    /\ parses' = Append(parses, [doc |-> d, out |-> extract_transactions_with_fallback(d)])
    /\ UNCHANGED <<fetchers, driverCookies, input, tickerOut, ownerOut>>
    /\ UNCHANGED <<headerCells, headerMapOut>>
    /\ UNCHANGED <<pc, caller, maxRetries, url, attempt, page, result, log, report>>
    /\ UNCHANGED <<report_data, failure, saved>>
    /\ UnchangedSession
    /\ UnchangedRun

ParseNext == ParseDocument

ParseSpec == ParseInit /\ [][ParseNext]_vars

(***************************************************************************)
(* The parser chain called several times in a row, on documents of a small *)
(* pool that are parsed by each of the three strategies, by none, or with  *)
(* an exception.                                                           *)
(***************************************************************************)

RepeatDocs ==
    {Doc(<<>>, <<>>, ScenarioText),
     TableDoc,
     OwnerTableDoc,
     ShortRowDoc,
     NoTransactionsDoc,
     Doc(<<>>, <<[class |-> "transaction-row",
                  text |-> " Apple Inc Purchase 01/02/2023 $1,001-$15,000 "]>>, "")}

RepeatInit ==
    /\ pc = "parser"
    /\ caller = "none"
    /\ maxRetries = 0
    /\ url = ""
    /\ attempt = 0
    /\ page = None
    /\ result = None
    /\ log = <<>>
    /\ report = None
    /\ doc \in {Some(d) : d \in RepeatDocs}
    /\ parsed = None
    /\ Constructed

RepeatNext ==
    \/ ParseDocument
    \/ \E d \in RepeatDocs : ParseAgain(d)

RepeatSpec == RepeatInit /\ [][RepeatNext]_vars

(***************************************************************************)
(* create_header_map on its own: parse_tables reads the header cells of a  *)
(* table, strips and lower-cases their texts and builds the header map.    *)
(***************************************************************************)

\* the most cells of a generated header row
MaxHeaderCells == 3

HeaderCellTexts ==
    {"First Name", "Transaction Date", " Asset Name ", "Owner", "TYPE", "Amount", "Notes"}

HeaderRows == SeqsUpTo(HeaderCellTexts, MaxHeaderCells)

\* header_cells = rows[0].find_all(['th', 'td']); headers = [...lower()];
\* header_map = self.create_header_map(headers)
CreateHeaderMap(cells) ==
    /\ pc = "idle"
    /\ pc' = "mapped"
    /\ headerCells' = cells
    /\ headerMapOut' = Some(create_header_map(TableHeaders(<<cells>>)))
    /\ UNCHANGED <<caller, maxRetries, url, attempt, page, result, log, report, doc, parsed,
                   report_data, failure, saved, fetchers, driverCookies, input, tickerOut,
                   ownerOut, parses>>
    /\ UnchangedSession
    /\ UnchangedRun

HeaderNext == \E cells \in HeaderRows : CreateHeaderMap(cells)

HeaderSpec == Init /\ [][HeaderNext]_vars

(***************************************************************************)
(* Claims about the download (checked under Spec).                         *)
(***************************************************************************)

\* the download has handed back None, or process_report has reported the failure
FailureReported ==
    \/ pc = "fetch_failed"
    \/ pc \in {"returned", "done"} /\ result = None

\* C1: a download with max_retries = N makes at most N attempts, and a failure is
\* reported (by the download or by process_report) only when all N attempts have been
\* made and none of them obtained a document.
C1_FailureOnlyAfterAllAttempts ==
    /\ Len(log) <= maxRetries
    /\ FailureReported =>
          /\ Len(log) = maxRetries
          /\ \A k \in 1..Len(log) : log[k].outcome \in {"exception", "status", "marker"}

\* C2: an attempt whose first load ends on the home page refreshes the session exactly
\* once and reloads the same URL exactly once before it is decided; it is counted as
\* failed by the marker only after that reload, and when the reloaded page is off the
\* home page its source is returned within the same attempt.
C2_OneRefreshOneReload ==
    /\ \A k \in 1..Len(log) :
          /\ log[k].refreshes <= 1
          /\ ~log[k].marker => log[k].refreshes = 0 /\ Len(log[k].gets) <= 1
          /\ log[k].outcome = "marker" => log[k].marker
          /\ log[k].marker /\ log[k].outcome # "running" =>
                /\ log[k].refreshes = 1
                /\ log[k].gets = <<<<"render", url>>, <<"render", url>>>>
    /\ log # <<>> /\ Last.marker /\ Len(Last.gets) = 2 /\ ~IsRedirected(page[1]) =>
          /\ pc \in {"returned", "done", "fetch_failed", "raised"}
          /\ Last.outcome = "document"
          /\ result = Some(page[1].source)
          /\ Last.index = attempt
          /\ Len(log) = attempt + 1

\* C2 witness: a download returned the reloaded page after a refresh
C2_Witness ==
    /\ pc = "returned"
    /\ result # None
    /\ Last.marker
    /\ Last.refreshes = 1
    /\ attempt = 1

\* C3: attempts 0..2 load through the render backend only, every later attempt through
\* the HTTP session only; the backend of an attempt is decided by its index.
C3_StrategyByIndex ==
    \A k \in 1..Len(log) :
        /\ log[k].index = k - 1
        /\ log[k].outcome # "running" => log[k].gets # <<>>
        /\ \A g \in 1..Len(log[k].gets) :
              log[k].gets[g][1] = IF k - 1 < 3 THEN "render" ELSE "http"

\* C3 witness: a download that went through three render attempts and an HTTP attempt
C3_Witness ==
    /\ Len(log) = 5
    /\ log[3].gets # <<>> /\ log[3].gets[1][1] = "render"
    /\ log[4].gets # <<>> /\ log[4].gets[1][1] = "http"
    /\ log[5].outcome = "document"

\* C4: after every attempt that is followed by another one the download has waited a
\* backoff delay of at most 2^attempt seconds, whatever made the attempt fail.
C4_BackoffBetweenAttempts ==
    \A k \in 1..(Len(log) - 1) :
        log[k].delay > 0 /\ log[k].delay <= Pow2(log[k].index)

(***************************************************************************)
(* Claims about the parser chain (checked under ParseSpec).                *)
(***************************************************************************)
ChainOrder == <<"parse_tables", "parse_alternative", "parse_with_regex">>

\* what a strategy, called on the document, returns (parse_tables: when it returns)
StrategyResult(name, d) ==
    CASE name = "parse_tables" -> parse_tables(d).transactions
      [] name = "parse_alternative" -> parse_alternative(d)
      [] name = "parse_with_regex" -> parse_with_regex(Html(d))

\* C5: when the chain returns, the strategies it invoked are a prefix of the fixed
\* order, each was invoked only after every earlier one returned nothing, each call
\* holds what that strategy returns on the document, the chain stopped at the first
\* non-empty result, and it returned that result (the empty list after all three).
C5_ChainOrder ==
    parsed # None /\ ~parsed[1].raised =>
        /\ Len(parsed[1].calls) \in 1..3
        /\ \A k \in 1..Len(parsed[1].calls) :
              /\ parsed[1].calls[k].name = ChainOrder[k]
              /\ parsed[1].calls[k].transactions = StrategyResult(ChainOrder[k], doc[1])
              /\ k < Len(parsed[1].calls) => parsed[1].calls[k].transactions = <<>>
        /\ parsed[1].transactions = parsed[1].calls[Len(parsed[1].calls)].transactions
        /\ parsed[1].transactions = <<>> => Len(parsed[1].calls) = 3

\* C5 witness: the chain fell through to the heuristic parser, which found something
\* where the regex parser would have found something else
C5_Witness ==
    /\ parsed # None
    /\ ~parsed[1].raised
    /\ Len(parsed[1].calls) = 2
    /\ parsed[1].transactions # <<>>
    /\ parse_with_regex(Html(doc[1])) # <<>>
    /\ parse_with_regex(Html(doc[1])) # parsed[1].transactions

\* C6: the parser chain raises for no document.
C6_ParserNeverRaises == parsed # None => ~parsed[1].raised

\* C7: every transaction the chain returns has a non-empty raw_text.
C7_RawTextPopulated ==
    parsed # None =>
        \A k \in 1..Len(parsed[1].transactions) :
            /\ "raw_text" \in DOMAIN parsed[1].transactions[k]
            /\ parsed[1].transactions[k].raw_text # ""

\* the data rows with at least 3 cells of the tables with at least 2 rows and a
\* non-empty header map, in document order
RECURSIVE QualifyingRowsFrom(_, _)
QualifyingRowsFrom(tables, i) ==
    IF i > Len(tables) THEN <<>>
    ELSE (IF Len(tables[i]) >= 2 /\ DOMAIN create_header_map(TableHeaders(tables[i])) # {}
          THEN SelectSeq(SubSeq(tables[i], 2, Len(tables[i])), LAMBDA row : Len(row) >= 3)
          ELSE <<>>)
         \o QualifyingRowsFrom(tables, i + 1)

RowsHaveTransactions(rows, out) ==
    /\ ~out.raised
    /\ Len(out.transactions) = Len(rows)
    /\ \A k \in 1..Len(rows) :
          /\ out.transactions[k].raw_text # ""
          /\ out.transactions[k].cell_count = Len(rows[k])

\* C8: parse_tables yields a transaction for every qualifying row, with a non-empty
\* raw_text and the row's number of cells as cell_count, and nothing for anything else.
C8_TransactionPerQualifyingRow ==
    parsed # None =>
        RowsHaveTransactions(QualifyingRowsFrom(doc[1].tables, 1), parse_tables(doc[1]))

ScenarioDoc == Doc(<< <<ScenarioHeader, ScenarioRow>> >>, <<>>, "")

\* C9: the scenario table is parsed into exactly one transaction, whose ticker is AAPL.
C9_ScenarioTicker ==
    parsed # None /\ doc = Some(ScenarioDoc) =>
        /\ ~parsed[1].raised
        /\ Len(parsed[1].transactions) = 1
        /\ "ticker" \in DOMAIN parsed[1].transactions[1]
        /\ parsed[1].transactions[1].ticker = Some("AAPL")

\* A transaction holds, for every field the header map maps, the row's cell in the
\* mapped column, and holds no field the header map does not map.  The claim is read
\* in the code's favour where it can be: an empty ticker cell may give the ticker None,
\* and a ticker derived from the asset may stand in when no ticker column is mapped.
PopulatedFromMap(tx, cells, header_map) ==
    \A field \in Fields :
        IF field \in DOMAIN header_map
        THEN /\ field \in DOMAIN tx
             /\ header_map[field] < Len(cells)
             /\ IF field = "ticker"
                THEN \/ tx[field] = Some(Strip(cells[header_map[field] + 1]))
                     \/ tx[field] = None /\ Strip(cells[header_map[field] + 1]) = ""
                ELSE tx[field] = Strip(cells[header_map[field] + 1])
        ELSE field = "ticker" \/ field \notin DOMAIN tx

JobsPopulated(jobs, out) ==
    ~out.raised =>
        \A k \in 1..Len(jobs) :
            PopulatedFromMap(out.transactions[k], jobs[k].cells, jobs[k].header_map)

\* C10: every transaction parse_tables emits is populated from the mapped columns, the
\* ticker column included, and omits the unmapped fields.
C10_FieldsFromMappedColumns ==
    parsed # None => JobsPopulated(DocJobsFrom(doc[1].tables, 1), parse_tables(doc[1]))

(***************************************************************************)
(* Claims about session acquisition (checked under SessionSpec).           *)
(***************************************************************************)

\* C11: a call of establish_session_once made when the session is established returns
\* True, runs no step of either strategy and leaves the session's cookies as they
\* were; the flag stays set.
C11_AcquireIdempotent ==
    acq # None /\ acq[1].kind = "establish_session_once" /\ acq[1].established_before =>
        /\ acq[1].result
        /\ ~acq[1].raised
        /\ acq[1].steps = <<>>
        /\ cookies = acq[1].cookies_before
        /\ session_established
        /\ outcome = Returned("establish_session_once", TRUE)

\* C11 witness: a second call on an established session that holds cookies
C11_Witness ==
    /\ acq # None
    /\ acq[1].kind = "establish_session_once"
    /\ acq[1].established_before
    /\ cookies # {}

SessionOps == {"session.get", "session.post"}

\* C12: an acquisition that runs the strategies starts with the render strategy's load
\* of the gate; a request of the HTTP session comes only after it, and only when the
\* render strategy did not reach the transfer of the cookies; the first such request
\* is the get of the gate.
C12_RenderBeforeDirect ==
    acq # None /\ acq[1].steps # <<>> =>
        /\ acq[1].steps[1] = Step("driver.get", GateUrl)
        /\ \A i \in 1..Len(acq[1].steps) :
              acq[1].steps[i].op \in SessionOps =>
                  /\ i > 1
                  /\ \A j \in 1..Len(acq[1].steps) :
                        acq[1].steps[j].op \notin {"click", "cookies.set"}
                  /\ acq[1].steps[2] = Step("session.get", GateUrl)

\* C12 witness: the render strategy failed and the direct strategy posted the agreement
C12_Witness ==
    /\ acq # None
    /\ acq[1].result
    /\ Len(acq[1].steps) = 3
    /\ acq[1].steps[3].op = "session.post"

RenderSucceeds(consent) == consent.loaded /\ consent.accepted

\* the direct strategy was run and succeeded: the gate answered with an agreement form
\* that has an action, and the post of the agreement was answered 200
DirectSucceeds(gate, post) ==
    /\ gate # None
    /\ ~gate[1].raises
    /\ gate[1].agree_statement /\ gate[1].form # None /\ gate[1].form[1] # None
    /\ post # None
    /\ ~post[1].raises
    /\ post[1].status_code = 200

\* C13: an acquisition that ran the strategies returns False only when the render
\* strategy and the direct strategy both failed, returns True at the step at which
\* the first of them succeeds, and lets no exception of either strategy out.
C13_FailsOnlyIfBothFail ==
    acq # None /\ acq[1].answers # None =>
        /\ acq[1].result = (RenderSucceeds(acq[1].answers[1].consent)
                              \/ DirectSucceeds(acq[1].answers[1].gate, acq[1].answers[1].post))
        /\ ~acq[1].raised
        /\ outcome = Returned(acq[1].kind, acq[1].result)
        /\ RenderSucceeds(acq[1].answers[1].consent) =>
              acq[1].steps[Len(acq[1].steps)].op = "cookies.set"
        /\ (~RenderSucceeds(acq[1].answers[1].consent)
              /\ DirectSucceeds(acq[1].answers[1].gate, acq[1].answers[1].post)) =>
              acq[1].steps[Len(acq[1].steps)].op = "session.post"

\* C13 witness: both strategies raised and the acquisition returned False
C13_Witness ==
    /\ acq # None
    /\ ~acq[1].result
    /\ ~acq[1].raised
    /\ acq[1].steps = <<Step("driver.get", GateUrl), Step("session.get", GateUrl)>>
    /\ outcome = Returned(acq[1].kind, FALSE)

(***************************************************************************)
(* Claims about the refresh of the session (checked under Spec).           *)
(***************************************************************************)
RECURSIVE RefreshesFrom(_, _)
RefreshesFrom(entries, k) ==
    IF k > Len(entries) THEN 0 ELSE entries[k].refreshes + RefreshesFrom(entries, k + 1)

\* the download is about to refresh: it is in a render attempt whose one load so far
\* has just ended on the home page
InvalidationDetected ==
    /\ pc = "refresh"
    /\ caller \in {"download", "process_report"}
    /\ log # <<>>
    /\ Last.index = attempt
    /\ UsesRender(attempt)
    /\ Last.strategy = "render"
    /\ Last.gets = <<<<"render", url>>>>
    /\ Last.outcome = "running"
    /\ page # None
    /\ IsRedirected(page[1])

\* C14: establish_session runs, and the session's cookies change, only in a step of
\* the download taken when a render attempt has just loaded the home page; attempts
\* through the HTTP session, non-200 answers, exceptions, parsing and the building of
\* the record refresh nothing.
C14_RefreshOnlyOnInvalidation ==
    /\ [](pc = "refresh" => InvalidationDetected)
    /\ [](\A k \in 1..Len(log) :
             log[k].refreshes > 0 => log[k].strategy = "render" /\ log[k].marker)
    /\ [][(acq' # acq \/ cookies' # cookies
             \/ RefreshesFrom(log', 1) # RefreshesFrom(log, 1)) =>
          (InvalidationDetected /\ pc' = "reload"
             /\ RefreshesFrom(log', 1) = RefreshesFrom(log, 1) + 1)]_vars

\* C14 witness: the third render attempt has refreshed the session
C14_Witness ==
    /\ pc = "reload"
    /\ attempt = 2
    /\ Last.refreshes = 1
    /\ acq # None
    /\ acq[1].kind = "establish_session"

\* C17: the extraction_success of the record process_report built is false exactly when
\* the record has no transactions and the downloaded document does not contain
\* "No transactions"; it is true when there is a transaction or the document contains
\* the marker.
C17_SuccessUnlessEmptyAndUnmarked ==
    report # None =>
        /\ report[1].extraction_success \in BOOLEAN
        /\ ~report[1].extraction_success <=>
              (report[1].transactions = <<>> /\ ~Contains(Html(doc[1]), "No transactions"))
        /\ (report[1].transactions # <<>> \/ Contains(Html(doc[1]), "No transactions")) =>
              report[1].extraction_success

\* C17 witness: a record with no transactions, built from a document without the marker
C17_Witness ==
    /\ report # None
    /\ report[1].transactions = <<>>
    /\ ~Contains(Html(doc[1]), "No transactions")
    /\ ~report[1].extraction_success

\* C18: when process_report gives up because the download used up its attempts, what
\* it hands on names the report and the cause the last attempt failed with: the
\* exception, the status or the marker.
C18_ExhaustionNamesCause ==
    (pc = "fetch_failed" /\ result = None /\ attempt = maxRetries) =>
        /\ failure # None
        /\ failure[1].reference = report_data.name
        /\ "cause" \in DOMAIN failure[1]
        /\ failure[1].cause = Last.outcome

\* C30: the step after establish_session, whatever it returned, leads to the second
\* load of the same URL, with the attempt and the result untouched; that load is made
\* once and decides the attempt: the home page again ends the attempt, any other page
\* is returned, an exception goes to the handler; and the download returns None only
\* when its attempts are used up.
C30_RefreshOutcomeIgnored ==
    /\ [][pc = "refresh" =>
            /\ pc' = "reload"
            /\ attempt' = attempt
            /\ result' = result
            /\ url' = url]_vars
    /\ [][pc = "reload" =>
            \/ pc' = "except" /\ attempt' = attempt /\ result' = result
            \/ /\ pc' = "loop"
               /\ IsRedirected(page'[1])
               /\ attempt' = attempt + 1
               /\ result' = result
            \/ /\ pc' = "returned"
               /\ ~IsRedirected(page'[1])
               /\ result' = Some(page'[1].source)]_vars
    /\ []((pc = "returned" /\ result = None) => attempt >= maxRetries)

\* C30 witness: a refresh failed, and the reload that followed returned the report
C30_Witness ==
    /\ pc = "returned"
    /\ result # None
    /\ Last.refreshes = 1
    /\ Last.outcome = "document"
    /\ acq # None
    /\ acq[1].kind = "establish_session"
    /\ ~acq[1].result

\* the loads of one attempt that went through the render backend
RenderLoads(entry) ==
    Cardinality({g \in 1..Len(entry.gets) : entry.gets[g][1] = "render"})

RECURSIVE RenderLoadsFrom(_, _)
RenderLoadsFrom(entries, k) ==
    IF k > Len(entries) THEN 0
    ELSE RenderLoads(entries[k]) + RenderLoadsFrom(entries, k + 1)

\* min(max_retries, 3)
RenderAttemptsAtMost == IF maxRetries < 3 THEN maxRetries ELSE 3

C32_EndsAtFirstDocument ==
    /\ [](\A k \in 1..Len(log) :
             /\ log[k].outcome = "document" =>
                   /\ k = Len(log)
                   /\ log[k].delay = 0
                   /\ attempt = log[k].index
                   /\ pc \in {"returned", "done", "fetch_failed", "raised"}
                   /\ result # None
                   /\ log[k].strategy = "render" => result = Some(page[1].source)
                   /\ log[k].strategy = "http" =>
                         \E r \in Responses : r.status_code = 200 /\ result = Some(r.text)
             /\ log[k].index = maxRetries - 1 => log[k].delay = 0)
    /\ []((pc = "returned" \/ (pc = "done" /\ caller = "download")) =>
             parsed = None /\ doc = None)
    /\ [][(log # <<>> /\ Last.outcome = "document") =>
             /\ log' = log
             /\ result' = result
             /\ attempt' = attempt
             /\ page' = page
             /\ acq' = acq]_vars

\* C32 witness: a download whose first attempt raised and was followed by a delay, and
\* whose second attempt returned the document
C32_Witness ==
    /\ pc = "done"
    /\ caller = "download"
    /\ maxRetries = 5
    /\ Len(log) = 2
    /\ log[1].outcome = "exception"
    /\ log[1].delay > 0
    /\ Last.outcome = "document"
    /\ result # None

\* process_report has been left after its download returned
ProcessReportLeft ==
    /\ caller = "process_report"
    /\ pc \in {"done", "fetch_failed", "raised"}
    /\ log # <<>>

\* C33: when process_report is left after its download, it has returned a record
\* exactly when the download returned a non-empty document; the record is built from
\* what the parser chain made of that document; and when the download returned None
\* or an empty document the chain was not called and no record was returned.
C33_RecordIffDocument ==
    /\ ProcessReportLeft => (report # None <=> ~IsFalsy(result))
    /\ report # None =>
          /\ parsed # None
          /\ doc = result
          /\ report[1].transactions = parsed[1].transactions
    /\ ProcessReportLeft /\ IsFalsy(result) => parsed = None /\ report = None

(***************************************************************************)
(* Claims about references with partial metadata (checked under            *)
(* MetadataSpec).                                                          *)
(***************************************************************************)

\* C21: process_report on a reference that carries its link never ends in an
\* exception, whichever of name, date_filed, office and report_type are missing, and
\* the record it builds has a value, not None, for each of date_filed, office and
\* report_type.
C21_PartialMetadataHandled ==
    /\ pc # "raised"
    /\ report # None =>
          /\ report[1].date_filed # None
          /\ report[1].office # None
          /\ report[1].report_type # None

(***************************************************************************)
(* Further claims about the parser chain (checked under ParseSpec).        *)
(***************************************************************************)

\* the chain went as far as parse_with_regex
RegexWasCalled ==
    /\ pc = "parsed"
    /\ ~parsed[1].raised
    /\ Len(parsed[1].calls) = 3

\* C25: for the document without tables and divs whose text is "Goldman Sachs Group
\* Purchase 03/04/2022 $1,001-$15,000" the chain calls all three strategies and returns
\* one transaction, with asset "Goldman Sachs Group", transaction_type "Purchase", date
\* "03/04/2022", amount "$1,001-$15,000" and owner "self"; and whenever the chain
\* reaches parse_with_regex it returns one transaction for each match of the pattern
\* in the document, in order, with the type, date and amount of the match and with
\* owner and relationship "self".
C25_RegexFallbackDefaultsToSelf ==
    RegexWasCalled =>
        /\ doc[1] = Doc(<<>>, <<>>, ScenarioText) =>
              /\ Len(parsed[1].transactions) = 1
              /\ parsed[1].transactions[1].asset = "Goldman Sachs Group"
              /\ parsed[1].transactions[1].transaction_type = "Purchase"
              /\ parsed[1].transactions[1].date = "03/04/2022"
              /\ parsed[1].transactions[1].amount = "$1,001-$15,000"
              /\ parsed[1].transactions[1].owner = "self"
        /\ parsed[1].calls[3].name = "parse_with_regex"
        /\ Len(parsed[1].transactions) = Len(FindAllTransactions(Html(doc[1]), 1))
        /\ \A k \in 1..Len(parsed[1].transactions) :
              /\ parsed[1].transactions[k].owner = "self"
              /\ parsed[1].transactions[k].relationship = "self"
              /\ parsed[1].transactions[k].transaction_type =
                    FindAllTransactions(Html(doc[1]), 1)[k].transaction_type
              /\ parsed[1].transactions[k].date = FindAllTransactions(Html(doc[1]), 1)[k].date
              /\ parsed[1].transactions[k].amount = FindAllTransactions(Html(doc[1]), 1)[k].amount

\* C25 witness: the scenario's document has been parsed, by parse_with_regex
C25_Witness ==
    /\ RegexWasCalled
    /\ doc[1] = Doc(<<>>, <<>>, ScenarioText)
    /\ parsed[1].transactions # <<>>
    /\ parsed[1].transactions[1].asset = "Goldman Sachs Group"

(***************************************************************************)
(* Claims about extract_ticker and identify_transaction_owner (checked     *)
(* under TextSpec).  The patterns are stated here by what they match: a    *)
(* match is a start and a capture, and a search returns the capture of the *)
(* leftmost start, the longest one there.                                  *)
(***************************************************************************)

\* one to five uppercase letters
IsCode(s) == Len(s) \in 1..5 /\ \A k \in 1..Len(s) : IsUpper(CharAt(s, k))

AllSpaces(s, from, to) == \A j \in from..to : IsSpace(CharAt(s, j))

\* ( or [, a code, ) or ]
BracketedMatches(s) ==
    LET found == {m \in (1..Len(s)) \X (1..5) :
                    /\ m[1] + m[2] + 1 <= Len(s)
                    /\ CharAt(s, m[1]) \in {"(", "["}
                    /\ IsCode(SubSeq(s, m[1] + 1, m[1] + m[2]))
                    /\ CharAt(s, m[1] + m[2] + 1) \in {")", "]"}}
    IN  {[start |-> m[1], capture |-> SubSeq(s, m[1] + 1, m[1] + m[2])] : m \in found}

\* a code, any whitespace, a hyphen
HyphenAfterMatches(s) ==
    LET found == {m \in (1..Len(s)) \X (1..5) \X (0..Len(s)) :
                    /\ m[1] + m[2] + m[3] <= Len(s)
                    /\ IsCode(SubSeq(s, m[1], m[1] + m[2] - 1))
                    /\ AllSpaces(s, m[1] + m[2], m[1] + m[2] + m[3] - 1)
                    /\ CharAt(s, m[1] + m[2] + m[3]) = "-"}
    IN  {[start |-> m[1], capture |-> SubSeq(s, m[1], m[1] + m[2] - 1)] : m \in found}

\* a hyphen, any whitespace, a code
HyphenBeforeMatches(s) ==
    LET found == {m \in (1..Len(s)) \X (1..5) \X (0..Len(s)) :
                    /\ m[1] + m[3] + m[2] <= Len(s)
                    /\ CharAt(s, m[1]) = "-"
                    /\ AllSpaces(s, m[1] + 1, m[1] + m[3])
                    /\ IsCode(SubSeq(s, m[1] + m[3] + 1, m[1] + m[3] + m[2]))}
    IN  {[start |-> m[1], capture |-> SubSeq(s, m[1] + m[3] + 1, m[1] + m[3] + m[2])] :
            m \in found}

SearchCapture(matches) ==
    LET first == {m \in matches : \A n \in matches : m.start <= n.start}
    IN  (CHOOSE m \in first : \A n \in first : Len(n.capture) <= Len(m.capture)).capture

\* C23: extract_ticker returns the capture of the bracketed pattern when that matches,
\* whatever the other patterns do; else that of the code-before-hyphen pattern when
\* that matches; else that of the hyphen-before-code pattern; and None when none of
\* the three matches.  "Apple Inc (AAPL)" gives "AAPL", "Some Fund - VOO" gives "VOO",
\* "Unrelated text" gives None.
C23_FirstTickerPatternWins ==
    pc = "ticker" =>
        /\ tickerOut =
              IF BracketedMatches(input) # {}
              THEN Some(SearchCapture(BracketedMatches(input)))
              ELSE IF HyphenAfterMatches(input) # {}
              THEN Some(SearchCapture(HyphenAfterMatches(input)))
              ELSE IF HyphenBeforeMatches(input) # {}
              THEN Some(SearchCapture(HyphenBeforeMatches(input)))
              ELSE None
        /\ input = "Apple Inc (AAPL)" => tickerOut = Some("AAPL")
        /\ input = "Some Fund - VOO" => tickerOut = Some("VOO")
        /\ input = "Unrelated text" => tickerOut = None

\* C23 witness: a text that the bracketed pattern and the code-before-hyphen pattern
\* both match, with different captures, was given the bracketed one
C23_Witness ==
    /\ pc = "ticker"
    /\ input = "BRK-B (AAPL)"
    /\ tickerOut = Some("AAPL")
    /\ SearchCapture(HyphenAfterMatches(input)) = "BRK"

\* the text holds one of the keywords, in whatever case
HasKeyword(s, keywords) ==
    \E k \in keywords : \E i \in 1..Len(s) : StartsWithAtI(s, i, k)

\* C24: identify_transaction_owner returns spouse when the text holds a spouse keyword
\* in whatever case, else child when it holds a child keyword, else family when it
\* holds a family keyword, else self.  "Spouse IRA" gives spouse, "Family Trust" gives
\* family, the empty text gives self.
C24_OwnerByPriority ==
    pc = "owner" =>
        /\ ownerOut =
              IF HasKeyword(input, {"spouse", "husband", "wife", "joint", "spousal"})
              THEN "spouse"
              ELSE IF HasKeyword(input, {"child", "son", "daughter", "dependent", "minor"})
              THEN "child"
              ELSE IF HasKeyword(input, {"family", "trust", "estate"})
              THEN "family"
              ELSE "self"
        /\ input = "Spouse IRA" => ownerOut = "spouse"
        /\ input = "Family Trust" => ownerOut = "family"
        /\ input = "" => ownerOut = "self"

\* C24 witness: a text with a child keyword and a family keyword was classified child
C24_Witness ==
    /\ pc = "owner"
    /\ input = "Child Trust "
    /\ ownerOut = "child"

(***************************************************************************)
(* Claims about parse_alternative and parse_tables (checked under          *)
(* ParseSpec) and about the repetition of the chain (checked under         *)
(* RepeatSpec).                                                            *)
(***************************************************************************)

\* the chain went as far as parse_alternative
AlternativeWasCalled ==
    /\ pc = "parsed"
    /\ ~parsed[1].raised
    /\ Len(parsed[1].calls) >= 2

\* a block whose class or whose text holds one of the keywords
IndicatesTransaction(div) ==
    \/ HasKeyword(div.class, {"purchase", "sale", "exchange", "asset", "security", "$", "ticker"})
    \/ HasKeyword(div.text, {"purchase", "sale", "exchange", "asset", "security", "$", "ticker"})

\* the blocks that indicate a transaction and hold all four components
BlocksWithTransaction(divs) ==
    SelectSeq(divs, LAMBDA div :
        IndicatesTransaction(div) /\ parse_transaction_text(Strip(div.text)) # None)

\* C26: what parse_alternative returns is, in the order of the document, one
\* transaction for every div whose class or whose text holds a keyword (purchase,
\* sale, exchange, asset, security, $, ticker) and in whose text all four components
\* are found, and nothing for any other div.
C26_BlockYieldsIffFourComponents ==
    AlternativeWasCalled =>
        /\ parsed[1].calls[2].name = "parse_alternative"
        /\ parsed[1].calls[2].transactions =
              [k \in 1..Len(BlocksWithTransaction(doc[1].divs)) |->
                  parse_transaction_text(Strip(BlocksWithTransaction(doc[1].divs)[k].text))[1]]

\* the document's only table is a header row that create_header_map can map
HeaderOnlyTable ==
    /\ pc = "parsed"
    /\ Len(doc[1].tables) = 1
    /\ Len(doc[1].tables[1]) = 1
    /\ DOMAIN create_header_map(TableHeaders(doc[1].tables[1])) # {}

\* C27: on a document whose only table has mappable headers and no data row,
\* parse_tables returns nothing and the chain goes on to parse_alternative on the same
\* document, and to parse_with_regex exactly when parse_alternative returns nothing
\* too.
C27_HeaderOnlyTableFallsThrough ==
    HeaderOnlyTable =>
        /\ ~parsed[1].raised
        /\ parsed[1].calls[1] = Call("parse_tables", <<>>)
        /\ Len(parsed[1].calls) >= 2
        /\ parsed[1].calls[2] = Call("parse_alternative", parse_alternative(doc[1]))
        /\ IF parsed[1].calls[2].transactions = <<>>
           THEN /\ Len(parsed[1].calls) = 3
                /\ parsed[1].calls[3] = Call("parse_with_regex", parse_with_regex(Html(doc[1])))
           ELSE Len(parsed[1].calls) = 2

\* C27 witness: after a header-only table, parse_alternative found a transaction in a
\* div of the same document
C27_Witness ==
    /\ HeaderOnlyTable
    /\ Len(parsed[1].calls) = 2
    /\ parsed[1].calls[2].name = "parse_alternative"
    /\ parsed[1].transactions # <<>>

InsideEstablishSession(t) == fetchers[t].at \in {"accepted", "transfer"}

C15_RefreshDiscardsState ==
    pc = "reload" /\ acq # None /\ acq[1].kind = "establish_session" =>
        /\ cookies = acq[1].produced
        /\ session_established = acq[1].result

\* a record counts its own transactions
CountsItsTransactions(r) == r.transaction_count = Len(r.transactions)

\* C16: every record the pipeline has produced, the record process_report returned,
\* the records process_reports collected and the record process_direct_url returns,
\* has transaction_count equal to the length of its transactions; and the step in
\* which process_direct_url post-processes a record changes at most its name.
C16_CountMatchesTransactions ==
    /\ [](/\ report # None => CountsItsTransactions(report[1])
          /\ \A k \in 1..Len(processed) : CountsItsTransactions(processed[k])
          /\ (outcome # None /\ outcome[1].op = "process_direct_url"
                 /\ outcome[1].value # None) =>
                CountsItsTransactions(outcome[1].value[1]))
    /\ [][(outer = "process_direct_url" /\ outer' = "none" /\ report # None) =>
            /\ outcome'[1].value # None
            /\ outcome'[1].value[1].transactions = report[1].transactions
            /\ outcome'[1].value[1].transaction_count = report[1].transaction_count
            /\ [outcome'[1].value[1] EXCEPT !.name = report[1].name] = report[1]]_vars

\* C16 witness: process_direct_url has returned a record it renamed after the owner of
\* its first transaction
C16_Witness ==
    /\ outcome # None
    /\ outcome[1].op = "process_direct_url"
    /\ outcome[1].value # None
    /\ outcome[1].value[1].transactions # <<>>
    /\ outcome[1].value[1].name = "Direct URL Report (Spouse)"

\* the references process_reports has dealt with, and those it has a record for
HandledReferences == [k \in 1..Len(handled) |-> handled[k].reference]

HandledWithRecord == SelectSeq(handled, LAMBDA e : e.outcome = "processed")

\* run_daily_scrape has handed the list of its last search to process_reports
InProcessReports ==
    /\ run = "daily"
    /\ stage \in {"today", "yesterday"}
    /\ pc # "searched"
    /\ searches # <<>>
    /\ searches[Len(searches)] # <<>>

\* C19: while process_reports works through the list a search returned, the
\* references handled so far followed by those still to come are that list, in its
\* order; the records collected are those of the references handled without failure,
\* in that order; a failed download is followed by the next reference, with the
\* failure recorded for the failed reference alone and every earlier record kept; and
\* the run ends only when the list is used up.
C19_FailureSkipsOneReference ==
    /\ [](InProcessReports =>
            /\ HandledReferences \o queue = searches[Len(searches)]
            /\ Len(processed) = Len(HandledWithRecord)
            /\ \A k \in 1..Len(processed) :
                  /\ processed[k].name = HandledWithRecord[k].reference.name
                  /\ processed[k].link = HandledWithRecord[k].reference.link
            /\ pc = "ended" => queue = <<>>)
    /\ [][(pc = "fetch_failed" /\ outer = "process_reports") =>
            /\ pc' = "batch"
            /\ queue # <<>>
            /\ queue' = Tail(queue)
            /\ processed' = processed
            /\ handled' = Append(handled, [reference |-> Head(queue), outcome |-> "failed"])]_vars

\* C19 witness: the first of two references failed to download and the second one was
\* processed all the same
C19_Witness ==
    /\ InProcessReports
    /\ Len(handled) = 2
    /\ handled[1].outcome = "failed"
    /\ handled[2].outcome = "processed"
    /\ Len(processed) = 1
    /\ processed[1].name = handled[2].reference.name

\* the places where a document is fetched or parsed, or a search is run
FetchingOrParsing ==
    pc \in {"loop", "render", "refresh", "reload", "http", "except", "returned",
            "done", "fetch_failed", "raised", "search", "batch", "known"}

\* C20: after an acquisition in which both strategies failed, and until the next
\* acquisition, the program is at none of the places where a document is fetched, a
\* search is run or a document is parsed, and it has logged no attempt.
C20_FailedAcquisitionHalts ==
    (acq # None /\ acq[1].steps # <<>> /\ ~acq[1].result) =>
        /\ ~FetchingOrParsing
        /\ log = <<>>
        /\ report = None
        /\ parsed = None

\* C29: no step takes session_established from true to false, be it a load that
\* finds the home page or a refresh that fails; and every establish_session_once
\* called with the flag set took no step towards the gate and returned True.
C29_FlagStaysSet ==
    /\ [][session_established => session_established']_vars
    /\ []((acq # None /\ acq[1].kind = "establish_session_once"
              /\ acq[1].established_before) =>
             /\ acq[1].steps = <<>>
             /\ acq[1].result
             /\ session_established)

\* C29 witness: a refresh has failed during a download and the flag is still set
C29_Witness ==
    /\ pc = "reload"
    /\ acq # None
    /\ acq[1].kind = "establish_session"
    /\ ~acq[1].result
    /\ acq[1].established_before
    /\ session_established

(***************************************************************************)
(* Claims about the header map (checked under HeaderSpec).                 *)
(***************************************************************************)

\* the 0-based indexes of the header cells whose lower-cased text contains one of the
\* names of the field
SynonymColumns(field) ==
    {idx \in 0..(Len(headerCells) - 1) :
        \E name \in field_mappings[field] : Contains(Lower(headerCells[idx + 1]), name)}

\* C34: the header map has a field as a key exactly when some header cell, lower-cased,
\* contains one of the field's names, and maps it to the smallest index of such a cell,
\* whatever the other fields are mapped to; a first header "transaction date" is the
\* column of both transaction_type and date.
C34_HeaderMapSmallestIndex ==
    pc = "mapped" =>
        /\ \A field \in Fields :
              /\ field \in DOMAIN headerMapOut[1] <=> SynonymColumns(field) # {}
              /\ field \in DOMAIN headerMapOut[1] =>
                    /\ headerMapOut[1][field] \in SynonymColumns(field)
                    /\ \A idx \in SynonymColumns(field) : headerMapOut[1][field] <= idx
        /\ (headerCells # <<>> /\ Lower(headerCells[1]) = "transaction date") =>
              /\ headerMapOut[1]["transaction_type"] = 0
              /\ headerMapOut[1]["date"] = 0

\* C34 witness: "first name" holds the name "name" of asset, so asset is mapped to
\* column 0 and not to " Asset Name "; transaction_type and date share column 1
C34_Witness ==
    /\ pc = "mapped"
    /\ headerCells = <<"First Name", "Transaction Date", " Asset Name ">>
    /\ DOMAIN headerMapOut[1] = {"asset", "transaction_type", "date"}
    /\ headerMapOut[1]["asset"] = 0
    /\ headerMapOut[1]["transaction_type"] = 1
    /\ headerMapOut[1]["date"] = 1

====
